---- MODULE Spec2Model ----
(***************************************************************************)
(* Model of the SQS DLQ redrive web application: batched redrive           *)
(* (redriveMessages), deduplicated retrieval (receiveDeduplicated) and the *)
(* expiring session store (setSsoSession / getSsoSession).                 *)
(*                                                                         *)
(* Strings that the code formats or compares character by character        *)
(* (batch entry ids) are sequences of one-character strings.  Every await  *)
(* of a provider request is a suspension point: an operation is one action *)
(* per stretch of code between two suspension points.                      *)
(***************************************************************************)
EXTENDS Integers, Sequences, FiniteSets, TLC

VARIABLES
    \* ---- redriveMessages (src/src/aws/sqsService.ts:146-201) ----
    rdPc,              \* "idle" | "awaitSend" | "awaitDelete" | "returned" | "raised"
    rdMessages,        \* parameter messages
    deleteAfterSend,   \* parameter deleteAfterSend
    i,                 \* loop variable i (offset of the current batch)
    sent, sendFailed, deleted, deleteFailed,   \* the four counters
    successfulBatch,   \* successfulBatch of the current batch
    rdRequests,        \* every request issued by the call, in order
    rdResponses,       \* the settlement of every request, in order
    rdResult,          \* the returned summary, or None
    rdError,           \* the error the call raised, or None
    \* ---- receiveDeduplicated (src/src/aws/sqsService.ts:75-119) ----
    fPc,               \* "idle" | "awaitReceive" | "returned"
    fOptions,          \* parameter options (maxMessages as given)
    maxMessages,       \* local maxMessages (clamped)
    seen,              \* local seen
    fMessages,         \* local messages (the result)
    batchSize,         \* MaxNumberOfMessages of the last receive request
    fBatch,            \* batch of the last receive response
    newInBatch,        \* newInBatch of the last handled batch
    fReceives,         \* number of receive requests issued by the call
    qNext,             \* queue: position of the first never delivered message
    \* ---- session store (src/src/aws/sessionStore.ts:15-36) ----
    store,             \* the Map store
    now,               \* Date.now()
    getId,             \* argument of the last getSsoSession call
    getPrior,          \* store.get(sessionId) as that call found it
    getTime,           \* Date.now() at that call
    getResult,         \* its return value
    evicted,           \* ids whose expired entry a getSsoSession removed, not set since
    \* ---- device-flow login (src/unnamed/part_004) ----
    registeredClient,  \* module variable registeredClient (None is null)
    profiles,          \* what loadSsoProfiles() returns at present
    lgCall,            \* the startLogin / pollForLogin calls, by call slot
    \* ---- environment registry (src/src/aws/sessionStore.ts:40-67) ----
    dynamicEnvs,       \* the Map dynamicEnvs: a function on the session ids it holds
    lastRegistered,    \* the list last handed to registerDynamicEnvironments, by session id
    geEnvId,           \* arguments of the last getEnvironment request
    geSessionId,
    geEnvs,            \* the list last registered under geSessionId at that request
    geResult,          \* what it returned or raised
    \* ---- GET /api/sso/environments (src/unnamed/part_002:95-117) and
    \*      discoverSsoEnvironments (src/src/aws/sqsService.ts:219-275) ----
    ds,                \* the request being handled: position, the function's
                       \* local variables, the provider requests made, the answer
    \* ---- createSqsClient, listQueues (src/src/aws/sqsService.ts:19-67) ----
    cr,                \* the operation that is resolving credentials: position,
                       \* arguments, the provider's answer, the error raised
    \* ---- filterByAttributePath (src/unnamed/part_003:28-82) ----
    fl,                \* the arguments, and the results of the call with
                       \* exclude = false and of the call with exclude = true
    \* ---- GET /api/queues, POST /api/preview, POST /api/redrive
    \*      (src/unnamed/part_002:120-252) ----
    rq,                \* the request last received: how far its handler got
                       \* ("refused", "failed", "called"), and what it answered
                       \* before it called the operation
    \* ---- ssoConnectBtn click handler (src/public/app.js:96-167) ----
    lp,                \* the browser's login flow: position, profile, number of
                       \* polls made, expiresAt of the device authorization
    \* ---- ssoRateLimiter (src/unnamed/part_002:47-54) ----
    rl                 \* start/poll requests of the client counted in the
                       \* current window

rdVars == <<rdPc, rdMessages, deleteAfterSend, i, sent, sendFailed, deleted,
            deleteFailed, successfulBatch, rdRequests, rdResponses, rdResult,
            rdError>>
fVars  == <<fPc, fOptions, maxMessages, seen, fMessages, batchSize, fBatch,
            newInBatch, fReceives, qNext>>
ssVars == <<store, now, getId, getPrior, getTime, getResult, evicted>>
lgVars == <<registeredClient, profiles, lgCall>>
regVars == <<dynamicEnvs, lastRegistered, geEnvId, geSessionId, geEnvs, geResult>>
vars   == <<rdVars, fVars, ssVars, lgVars, regVars, ds, cr, fl, rq, lp, rl>>

\* what the actions of one component leave alone
notRedrive == <<fVars, ssVars, lgVars, regVars, ds, cr, fl, rq, lp, rl>>
notFetch   == <<rdVars, ssVars, lgVars, regVars, ds, cr, fl, rq, lp, rl>>
notStore   == <<rdVars, fVars, lgVars, regVars, ds, cr, fl, rq, lp, rl>>
notLogin   == <<rdVars, fVars, regVars, ds, cr, fl, rq, lp, rl>>
notRegistry == <<rdVars, fVars, ssVars, lgVars, ds, cr, fl, rq, lp, rl>>
notDiscovery == <<rdVars, fVars, lgVars, cr, fl, rq, lp, rl>>
notCredentials == <<lgVars, ds, fl, rq, lp, rl>>
notFilter == <<rdVars, fVars, ssVars, lgVars, regVars, ds, cr, rq, lp, rl>>
notRequests == <<lgVars, ds, fl, lp, rl>>
notLoop == <<rdVars, fVars, regVars, ds, cr, fl, rq>>

None == [absent |-> TRUE]
NoSessionId == "none"

Min(a, b) == IF a < b THEN a ELSE b
Max(a, b) == IF a > b THEN a ELSE b

(***************************************************************************)
(* Bounds of the model.                                                    *)
(***************************************************************************)
MaxMsgs == 12        \* longest message list handed to redriveMessages

(***************************************************************************)
(* Number formatting: `${n}` of a non-negative integer.                    *)
(***************************************************************************)
DigitChars == <<"0", "1", "2", "3", "4", "5", "6", "7", "8", "9">>

RECURSIVE ToDigits(_)
ToDigits(n) ==
    IF n < 10 THEN <<DigitChars[n + 1]>>
    ELSE ToDigits(n \div 10) \o <<DigitChars[(n % 10) + 1]>>

(***************************************************************************)
(* redriveMessages                                                         *)
(***************************************************************************)
BatchLimit == 10

EntryIdOfMessage(index, messageId) == messageId

\* `${i + idx}-${m.messageId}`
EntryId(index, messageId) == ToDigits(index) \o <<"-">> \o messageId

SliceToEnd(messages, from) == SubSeq(messages, from + 1, Len(messages))

\* messages.slice(i, i + 10)
Slice(messages, from) ==
    SubSeq(messages, from + 1, Min(from + BatchLimit, Len(messages)))

\* Entries of the SendMessageBatchCommand
SendEntries(batch, offset) ==
    [idx \in 1..Len(batch) |->
        [Id |-> EntryId(offset + idx - 1, batch[idx].messageId),
         MessageBody |-> batch[idx].body]]

\* new Set((sendRes.Failed ?? []).map((f) => f.Id))
FailedSendIds(failed) == {failed[k] : k \in 1..Len(failed)}

RECURSIVE FilterFrom(_, _, _, _)
FilterFrom(batch, offset, failedIds, idx) ==
    IF idx > Len(batch) THEN <<>>
    ELSE (IF EntryId(offset + idx - 1, batch[idx].messageId) \in failedIds
          THEN <<>> ELSE <<batch[idx]>>)
         \o FilterFrom(batch, offset, failedIds, idx + 1)

SuccessfulBatchUnfiltered(batch, offset, failedIds) == batch

\* batch.filter((_m, idx) => !failedSendIds.has(`${i + idx}-${_m.messageId}`))
SuccessfulBatch(batch, offset, failedIds) == FilterFrom(batch, offset, failedIds, 1)

SendFailedByListLength(batch, okBatch, failed) == Len(failed)

\* batch.length - successfulBatch.length
SendFailedDelta(batch, okBatch, failed) == Len(batch) - Len(okBatch)

ShouldDeleteAlways(flag, okBatch) == Len(okBatch) > 0

ShouldDeleteWhenFlag(flag, okBatch) == flag

\* if (deleteAfterSend && successfulBatch.length > 0)
ShouldDelete(flag, okBatch) == flag /\ Len(okBatch) > 0

\* Entries of the DeleteMessageBatchCommand
DeleteEntries(okBatch, offset) ==
    [idx \in 1..Len(okBatch) |->
        [Id |-> EntryId(offset + idx - 1, okBatch[idx].messageId),
         ReceiptHandle |-> okBatch[idx].receiptHandle]]

NextOffsetSkipping(offset) == offset + BatchLimit + 1

\* i += 10
NextOffset(offset) == offset + BatchLimit

RejectsNever(response) == FALSE

RejectsOnFailedEntries(response) == response.raised \/ Len(response.failed) > 0

\* await client.send(...) throws iff the request itself failed
Rejects(response) == response.raised

TargetUrl == "target"
DlqUrl == "dlq"

\* The message lists a caller hands in: n messages whose ids are all distinct
\* ("m0", "m1", ...), all equal ("m"), or alternate between "1-m" and "m";
\* receipt handles and bodies are distinct per message.
IdPatterns == {"distinct", "same", "dashed"}

MessageIdOf(p, pattern) ==
    CASE pattern = "distinct" -> <<"m">> \o ToDigits(p)
      [] pattern = "same"     -> <<"m">>
      [] OTHER                -> IF p % 2 = 0 THEN <<"1", "-", "m">> ELSE <<"m">>

RedriveInput(n, pattern) ==
    [p \in 1..n |->
        [messageId |-> MessageIdOf(p - 1, pattern),
         receiptHandle |-> <<"r", "h">> \o ToDigits(p - 1),
         body |-> <<"b">> \o ToDigits(p - 1)]]

\* The failure lists a batch response may carry, for a request with the given
\* entries: none, the first or last entry, the first entry twice, an id that
\* is no entry of the request (the index just past the request), the last
\* entry together with such an id, or every entry.
FailedShapes == {"none", "first", "last", "firstTwice", "foreign", "lastAndForeign", "all"}

ForeignId(entries, offset) == EntryId(offset + BatchLimit, <<"m">>)

FailedList(entries, offset, shape) ==
    CASE shape = "none"           -> <<>>
      [] shape = "first"          -> <<entries[1].Id>>
      [] shape = "last"           -> <<entries[Len(entries)].Id>>
      [] shape = "firstTwice"     -> <<entries[1].Id, entries[1].Id>>
      [] shape = "foreign"        -> <<ForeignId(entries, offset)>>
      [] shape = "lastAndForeign" -> <<entries[Len(entries)].Id, ForeignId(entries, offset)>>
      [] OTHER                    -> [k \in 1..Len(entries) |-> entries[k].Id]

\* the errors a request to the queue service raises
RequestErrors ==
    {[name |-> "ThrottlingException", message |-> "Rate exceeded"],
     [name |-> "TimeoutError", message |-> "socket hang up"]}

Responses(entries, offset) ==
    {[raised |-> FALSE, failed |-> FailedList(entries, offset, shape), error |-> None] :
        shape \in FailedShapes}
        \cup {[raised |-> TRUE, failed |-> <<>>, error |-> e] : e \in RequestErrors}

\* The test of the for loop at the given offset: issue the next send request,
\* or leave the loop and return the summary.
EnterLoop(offset) ==
    /\ i' = offset
    /\ IF offset < Len(rdMessages')
       THEN /\ rdPc' = "awaitSend"
            /\ rdRequests' = Append(rdRequests,
                   [kind |-> "send", QueueUrl |-> TargetUrl,
                    Entries |-> SendEntries(Slice(rdMessages', offset), offset)])
            /\ rdResult' = None
       ELSE /\ rdPc' = "returned"
            /\ rdRequests' = rdRequests
            /\ rdResult' = [sent |-> sent', sendFailed |-> sendFailed',
                            deleted |-> deleted', deleteFailed |-> deleteFailed']

RedriveCall(messages, flag) ==
    /\ rdPc = "idle"
    /\ rdMessages' = messages
    /\ deleteAfterSend' = flag
    /\ sent' = 0 /\ sendFailed' = 0 /\ deleted' = 0 /\ deleteFailed' = 0
    /\ EnterLoop(0)
    /\ rdError' = None
    /\ UNCHANGED <<successfulBatch, rdResponses>>

SendSettled(response) ==
    /\ rdPc = "awaitSend"
    /\ rdResponses' = Append(rdResponses, response)
    /\ UNCHANGED <<rdMessages, deleteAfterSend>>
    /\ IF Rejects(response)
       THEN /\ rdPc' = "raised"
            /\ rdError' = response.error
            /\ UNCHANGED <<i, sent, sendFailed, deleted, deleteFailed,
                           successfulBatch, rdRequests, rdResult>>
       ELSE LET batch == Slice(rdMessages, i)
                failedSendIds == FailedSendIds(response.failed)
                okBatch == SuccessfulBatch(batch, i, failedSendIds)
            IN  /\ successfulBatch' = okBatch
                /\ rdError' = rdError
                /\ sent' = sent + Len(okBatch)
                /\ sendFailed' = sendFailed + SendFailedDelta(batch, okBatch, response.failed)
                /\ UNCHANGED <<deleted, deleteFailed>>
                /\ IF ShouldDelete(deleteAfterSend, okBatch)
                   THEN /\ rdPc' = "awaitDelete"
                        /\ rdRequests' = Append(rdRequests,
                               [kind |-> "delete", QueueUrl |-> DlqUrl,
                                Entries |-> DeleteEntries(okBatch, i)])
                        /\ UNCHANGED <<i, rdResult>>
                   ELSE EnterLoop(NextOffset(i))

DeleteSettled(response) ==
    /\ rdPc = "awaitDelete"
    /\ rdResponses' = Append(rdResponses, response)
    /\ UNCHANGED <<rdMessages, deleteAfterSend, successfulBatch>>
    /\ IF Rejects(response)
       THEN /\ rdPc' = "raised"
            /\ rdError' = response.error
            /\ UNCHANGED <<i, sent, sendFailed, deleted, deleteFailed,
                           rdRequests, rdResult>>
       ELSE LET failedDeleteCount == Len(response.failed)
            IN  /\ rdError' = rdError
                /\ deleteFailed' = deleteFailed + failedDeleteCount
                /\ deleted' = deleted + Len(successfulBatch) - failedDeleteCount
                /\ UNCHANGED <<sent, sendFailed>>
                /\ EnterLoop(NextOffset(i))

RedriveStart ==
    /\ \E n \in 0..MaxMsgs, pattern \in IdPatterns, flag \in BOOLEAN :
           RedriveCall(RedriveInput(n, pattern), flag)
    /\ UNCHANGED notRedrive

SendResponse ==
    /\ rdPc = "awaitSend"
    /\ \E response \in Responses(rdRequests[Len(rdRequests)].Entries, i) :
           SendSettled(response)
    /\ UNCHANGED notRedrive

DeleteResponse ==
    /\ rdPc = "awaitDelete"
    /\ \E response \in Responses(rdRequests[Len(rdRequests)].Entries, i) :
           DeleteSettled(response)
    /\ UNCHANGED notRedrive

RedriveInit ==
    /\ rdPc = "idle"
    /\ rdMessages = <<>>
    /\ deleteAfterSend = FALSE
    /\ i = 0
    /\ sent = 0 /\ sendFailed = 0 /\ deleted = 0 /\ deleteFailed = 0
    /\ successfulBatch = <<>>
    /\ rdRequests = <<>>
    /\ rdResponses = <<>>
    /\ rdResult = None
    /\ rdError = None

NextRedrive ==
    \/ RedriveStart
    \/ SendResponse
    \/ DeleteResponse

(***************************************************************************)
(* receiveDeduplicated                                                     *)
(***************************************************************************)
PoolSize == 13       \* number of messages the queue holds
MaxRequested == 12   \* largest in-range maxMessages a caller asks for

ClampMin == 1
ClampMax == 5000
ReceiveLimit == 10

\* a message the transport delivered without MessageId
Undefined == <<"undefined">>
EmptyString == <<>>

ClampUpperOnly(requested) == Min(requested, ClampMax)

\* Math.max(1, Math.min(options.maxMessages, 5000))
Clamp(requested) == Max(ClampMin, Min(requested, ClampMax))

LoopConditionWhileSession(len, limit) ==
    /\ len < limit
    /\ cr.sessionId \in DOMAIN store
    /\ store[cr.sessionId] # None
    /\ store[cr.sessionId].expiresAt \notin 0..now

LoopConditionInclusive(len, limit) == len <= limit

\* while (messages.length < maxMessages)
LoopCondition(len, limit) == len < limit

BatchSizeFixed(limit, len) == ReceiveLimit

\* Math.min(10, maxMessages - messages.length)
BatchSize(limit, len) == Min(ReceiveLimit, limit - len)

DedupKeyByHandle(msg) ==
    IF msg.MessageId = Undefined THEN <<msg.ReceiptHandle>> ELSE msg.MessageId

\* msg.MessageId ?? ""
DedupKey(msg) == IF msg.MessageId = Undefined THEN EmptyString ELSE msg.MessageId

UnseenAlways(seenIds, id) == TRUE

\* !seen.has(id)
Unseen(seenIds, id) == id \notin seenIds

PushFront(messages, msg) == <<msg>> \o messages

\* messages.push(msg)
Push(messages, msg) == Append(messages, msg)

\* for (const msg of batch) { ... }: the locals after the messages from
\* index idx on have been handled
RECURSIVE HandleBatch(_, _, _)
HandleBatch(batch, idx, locals) ==
    IF idx > Len(batch) THEN locals
    ELSE LET id == DedupKey(batch[idx])
         IN  HandleBatch(batch, idx + 1,
                 IF Unseen(locals.seen, id)
                 THEN [seen |-> locals.seen \cup {id},
                       messages |-> Push(locals.messages, batch[idx]),
                       newInBatch |-> locals.newInBatch + 1]
                 ELSE locals)

CyclingNever(count) == FALSE

\* if (newInBatch === 0) break
Cycling(count) == count = 0

\* The values of options.maxMessages a caller passes: below the range, small,
\* around one full batch, and above the range.
RequestedSizes == {-1, 0, 1, 2, 3, MaxRequested, ClampMax + 1}

\* message bodies: two JSON objects, a JSON number, JSON null, a truncated text
OrderText == "{\"type\":\"order\",\"n\":5,\"ok\":true,\"nil\":null,\"user\":{\"id\":7,\"tags\":[\"a\",\"b\"]}}"
RefundText == "{\"type\":\"refund\",\"n\":10}"
NumberText == "5"
NullText == "null"
BrokenText == "{\"type\":"

\* the body of the message at a queue position ("none": the message is
\* delivered without Body)
BodyAt(position) ==
    CASE position % 5 = 1 -> OrderText
      [] position % 5 = 2 -> "none"
      [] position % 5 = 3 -> RefundText
      [] position % 5 = 4 -> ""
      [] OTHER -> NullText

\* The queue holds the messages m1 .. m<PoolSize>.  One receive delivers at
\* most MaxNumberOfMessages messages: a run of consecutive queue positions
\* (never delivered ones, redelivered ones, or both), one message twice, or
\* messages that carry no MessageId; each delivery has its own receipt handle.
QueueMessage(position, handle) ==
    IF BodyAt(position) = "none"
    THEN [MessageId |-> <<"m">> \o ToDigits(position), ReceiptHandle |-> handle]
    ELSE [MessageId |-> <<"m">> \o ToDigits(position), ReceiptHandle |-> handle,
          Body |-> BodyAt(position)]

NoIdMessage(idx) ==
    [MessageId |-> Undefined, ReceiptHandle |-> IF idx = 1 THEN "n1" ELSE "n2",
     Body |-> BrokenText]

\* the receipt handle tells a first delivery from a redelivery
HandleAt(position, next) == IF position < next THEN "again" ELSE "first"

Window(start, count, next) ==
    [idx \in 1..Min(count, PoolSize + 1 - start) |->
        QueueMessage(start + idx - 1, HandleAt(start + idx - 1, next))]

Deliveries(limit, next) ==
    LET sizes  == {0, 1, 2, limit} \cap (0..limit)
        starts == {1, next - 1, next} \cap (1..PoolSize)
    IN  {[batch |-> Window(s, k, next), last |-> Min(s + k - 1, PoolSize)] :
            s \in starts, k \in sizes}
        \cup {[batch |-> <<>>, last |-> 0]}
        \cup (IF limit >= 2
              THEN {[batch |-> <<QueueMessage(s, HandleAt(s, next)), QueueMessage(s, "again")>>,
                     last |-> s] : s \in starts}
                   \cup {[batch |-> <<NoIdMessage(1), NoIdMessage(2)>>,
                          last |-> 0]}
              ELSE {})
        \cup (IF limit >= 1
              THEN {[batch |-> <<NoIdMessage(1)>>, last |-> 0]}
              ELSE {})

\* The test of the while loop: issue the next receive request, or return.
FetchLoop ==
    IF LoopCondition(Len(fMessages'), maxMessages')
    THEN /\ fPc' = "awaitReceive"
         /\ batchSize' = BatchSize(maxMessages', Len(fMessages'))
         /\ fReceives' = fReceives + 1
    ELSE /\ fPc' = "returned"
         /\ UNCHANGED <<batchSize, fReceives>>

FetchCall(options) ==
    /\ fPc = "idle"
    /\ fOptions' = options
    /\ maxMessages' = Clamp(options.maxMessages)
    /\ seen' = {}
    /\ fMessages' = <<>>
    /\ FetchLoop
    /\ UNCHANGED <<fBatch, newInBatch, qNext>>

ReceiveSettled(delivery) ==
    /\ fPc = "awaitReceive"
    /\ fBatch' = delivery.batch
    /\ qNext' = Max(qNext, delivery.last + 1)
    /\ UNCHANGED <<fOptions, maxMessages>>
    /\ IF Len(delivery.batch) = 0
       THEN /\ fPc' = "returned"
            /\ UNCHANGED <<seen, fMessages, newInBatch, batchSize, fReceives>>
       ELSE LET locals == HandleBatch(delivery.batch, 1,
                              [seen |-> seen, messages |-> fMessages, newInBatch |-> 0])
            IN  /\ seen' = locals.seen
                /\ fMessages' = locals.messages
                /\ newInBatch' = locals.newInBatch
                /\ IF Cycling(locals.newInBatch)
                   THEN /\ fPc' = "returned"
                        /\ UNCHANGED <<batchSize, fReceives>>
                   ELSE FetchLoop

FetchStart ==
    /\ \E requested \in RequestedSizes : FetchCall([maxMessages |-> requested])
    /\ UNCHANGED notFetch

ReceiveResponse ==
    /\ fPc = "awaitReceive"
    /\ \E delivery \in Deliveries(batchSize, qNext) : ReceiveSettled(delivery)
    /\ UNCHANGED notFetch

FetchInit ==
    /\ fPc = "idle"
    /\ fOptions = [maxMessages |-> 0]
    /\ maxMessages = 0
    /\ seen = {}
    /\ fMessages = <<>>
    /\ batchSize = 0
    /\ fBatch = <<>>
    /\ newInBatch = 0
    /\ fReceives = 0
    /\ qNext = 1

NextFetch ==
    \/ FetchStart
    \/ ReceiveResponse

(***************************************************************************)
(* Session store                                                           *)
(***************************************************************************)
MaxTime == 3         \* the clock runs from 0 to MaxTime

SessionIds == {"s1", "s2"}
Tokens == {"t1", "t2"}
Unset == -1

\* ConnectedSsoSession; expiresAt is a time, or Unset
Sessions ==
    [ssoSession : {"sso"}, ssoRegion : {"eu-west-1"}, accessToken : Tokens,
     expiresAt : (0..MaxTime) \cup {Unset}]

ExpiredStrictly(value, time) == value.expiresAt # Unset /\ value.expiresAt < time

\* value.expiresAt && value.expiresAt.getTime() <= Date.now()
Expired(value, time) == value.expiresAt # Unset /\ value.expiresAt <= time

EvictNothing(sessionId) == store

EvictEveryExpired(sessionId) ==
    [k \in DOMAIN store |->
        IF k = sessionId THEN None
        ELSE IF store[k] # None /\ Expired(store[k], now) THEN None
        ELSE store[k]]

\* store.delete(sessionId)
Evict(sessionId) == [store EXCEPT ![sessionId] = None]

setSsoSessionIfAbsent(sessionId, session) ==
    /\ store' = IF store[sessionId] = None
                THEN [store EXCEPT ![sessionId] = session]
                ELSE store
    /\ evicted' = evicted \ {sessionId}
    /\ UNCHANGED <<now, getId, getPrior, getTime, getResult>>

\* store.set(sessionId, session)
setSsoSession(sessionId, session) ==
    /\ store' = [store EXCEPT ![sessionId] = session]
    /\ evicted' = evicted \ {sessionId}
    /\ UNCHANGED <<now, getId, getPrior, getTime, getResult>>

getSsoSession(sessionId) ==
    LET value == store[sessionId]
    IN  /\ getId' = sessionId
        /\ getPrior' = value
        /\ getTime' = now
        /\ UNCHANGED now
        /\ IF value = None
           THEN /\ getResult' = None
                /\ UNCHANGED <<store, evicted>>
           ELSE IF Expired(value, now)
                THEN /\ store' = Evict(sessionId)
                     /\ getResult' = None
                     /\ evicted' = evicted \cup {sessionId}
                ELSE /\ getResult' = value
                     /\ UNCHANGED <<store, evicted>>

\* time passes
Tick ==
    /\ now < MaxTime
    /\ now' = now + 1
    /\ UNCHANGED <<store, getId, getPrior, getTime, getResult, evicted>>
    /\ UNCHANGED notStore

\* the wall clock is set back (Date.now() is not monotonic)
ClockSetBack ==
    /\ now > 0
    /\ now' = now - 1
    /\ UNCHANGED <<store, getId, getPrior, getTime, getResult, evicted>>
    /\ UNCHANGED notStore

SetSession ==
    /\ \E sessionId \in SessionIds, session \in Sessions : setSsoSession(sessionId, session)
    /\ UNCHANGED notStore

GetSession ==
    /\ \E sessionId \in SessionIds : getSsoSession(sessionId)
    /\ UNCHANGED notStore

StoreInit ==
    /\ store = [sessionId \in SessionIds |-> None]
    /\ now = 0
    /\ getId = NoSessionId
    /\ getPrior = None
    /\ getTime = 0
    /\ getResult = None
    /\ evicted = {}

NextStore ==
    \/ SetSession
    \/ GetSession
    \/ Tick
    \/ ClockSetBack

(***************************************************************************)
(* Device-flow login: getRegisteredClient, startLogin, pollForLogin        *)
(***************************************************************************)
MaxSeconds == 2      \* the login clock runs from 0 to MaxSeconds seconds

SecondMs == 1000

Calls == {1, 2}
ProfileNames == {"dev", "prod", "ghost"}
ClientIds == {"c1", "c2"}
DeviceCode == "dc"
LoginSessionIds == {"s1"}     \* the session ids the logins are made for

\* the SsoProfile entries the configuration file can hold
AllProfiles ==
    {[name |-> "dev", ssoSession |-> "sso-a", ssoRegion |-> "eu-west-1",
      ssoStartUrl |-> "https://a.example"],
     [name |-> "prod", ssoSession |-> "sso-b", ssoRegion |-> "us-east-1",
      ssoStartUrl |-> "https://b.example"]}

\* !r.f for a string field, !r.f for a number field
HasText(r, f) == f \in DOMAIN r /\ r[f] # ""
HasNumber(r, f) == f \in DOMAIN r /\ r[f] # 0

\* new Error(message)
Error(message) == [name |-> "Error", message |-> message]

\* new Error(`${message}${subject}`)
ErrorAbout(message, subject) ==
    [name |-> "Error", message |-> message, subject |-> subject]

\* what the identity provider answers to RegisterClient
RegisterResponses ==
    {[kind |-> "ok", clientId |-> c, clientSecret |-> "secret"] : c \in ClientIds}
        \cup {[kind |-> "ok", clientId |-> "c1"],
              [kind |-> "raise", error |-> [name |-> "InternalServerException"]]}

\* what it answers to StartDeviceAuthorization
DeviceAuthResponses ==
    {[kind |-> "ok", deviceCode |-> DeviceCode, verificationUriComplete |-> "uri",
      userCode |-> "uc", interval |-> 5, expiresIn |-> 1],
     [kind |-> "ok", verificationUriComplete |-> "uri",
      userCode |-> "uc", interval |-> 5, expiresIn |-> 1],
     [kind |-> "ok", deviceCode |-> DeviceCode, verificationUriComplete |-> "uri",
      userCode |-> "uc", interval |-> 0, expiresIn |-> 1],
     [kind |-> "raise", error |-> [name |-> "InvalidRequestException"]]}

\* what it answers to CreateToken
TokenResponses ==
    {[kind |-> "ok", accessToken |-> t, expiresIn |-> e] :
        t \in Tokens, e \in 1..MaxSeconds}
        \cup {[kind |-> "ok", accessToken |-> "", expiresIn |-> 1],
              [kind |-> "ok", accessToken |-> "t1", expiresIn |-> 0],
              [kind |-> "ok", expiresIn |-> 1],
              [kind |-> "ok", accessToken |-> "t1"],
              [kind |-> "raise", error |-> [name |-> "AuthorizationPendingException"]],
              [kind |-> "raise", error |-> [name |-> "Error",
                                            error |-> "authorization_pending"]],
              [kind |-> "raise", error |-> [name |-> "AccessDeniedException"]],
              [kind |-> "raise", error |-> [name |-> "SlowDownException",
                                            error |-> "slow_down"]]}

PendingByNameOnly(err) == err.name = "AuthorizationPendingException"

IsPendingUntilExpiry(err) ==
    /\ \/ err.name = "AuthorizationPendingException"
       \/ "error" \in DOMAIN err /\ err.error = "authorization_pending"
    /\ now <= lp.expiresAt

\* anyErr?.name === "AuthorizationPendingException" ||
\* anyErr?.error === "authorization_pending"
IsPending(err) ==
    \/ err.name = "AuthorizationPendingException"
    \/ "error" \in DOMAIN err /\ err.error = "authorization_pending"

RethrownWrapped(err) == Error("Token exchange failed")

\* throw err
Rethrown(err) == err

\* new Date(Date.now() + expiresIn * 1000)
ExpiresAt(time, expiresIn) == time + expiresIn * SecondMs

FindProfileAtStartup(profileName) ==
    IF \E p \in AllProfiles : p.name = profileName
    THEN CHOOSE p \in AllProfiles : p.name = profileName
    ELSE None

\* loadSsoProfiles().find((p) => p.name === profileName)
FindProfile(profileName) ==
    IF \E p \in profiles : p.name = profileName
    THEN CHOOSE p \in profiles : p.name = profileName
    ELSE None

IdleCall == [pc |-> "idle"]
Finished(call) == lgCall[call].pc \in {"idle", "returned", "raised"}

Returned(kind, response, value) ==
    [pc |-> "returned", kind |-> kind, response |-> response, value |-> value]
Raised(kind, response, error) ==
    [pc |-> "raised", kind |-> kind, response |-> response, error |-> error]

\* the request a call issues once it holds the registered client
RequestPc(kind) == IF kind = "start" THEN "awaitDeviceAuth" ELSE "awaitToken"

\* startLogin / pollForLogin up to their first suspension: the profile
\* lookup and getRegisteredClient, which answers from registeredClient when
\* it is set and issues RegisterClient otherwise
BeginCall(call, kind, profileName, sessionId) ==
    LET profile == FindProfile(profileName)
    IN  /\ Finished(call)
        /\ lgCall' = [lgCall EXCEPT ![call] =
              IF profile = None
              THEN Raised(kind, None,
                          ErrorAbout("Unknown SSO profile: ", profileName))
              ELSE [pc |-> IF registeredClient # None THEN RequestPc(kind)
                           ELSE "awaitRegister",
                    kind |-> kind, profileName |-> profileName,
                    profile |-> profile, sessionId |-> sessionId,
                    client |-> registeredClient]]
        /\ UNCHANGED <<registeredClient, profiles, ssVars>>

startLogin(call, profileName) == BeginCall(call, "start", profileName, NoSessionId)

pollForLogin(call, profileName, deviceCode, sessionId) ==
    BeginCall(call, "poll", profileName, sessionId)

\* getRegisteredClient after the RegisterClient request has settled;
\* registeredIn is no field of the code's object: it records the region of
\* the SSOOIDCClient that sent the RegisterClient request
RegisterSettled(call, response) ==
    LET c == lgCall[call]
    IN  /\ c.pc = "awaitRegister"
        /\ IF response.kind = "raise"
           THEN /\ lgCall' = [lgCall EXCEPT ![call] =
                                 Raised(c.kind, response, response.error)]
                /\ UNCHANGED registeredClient
           ELSE IF ~HasText(response, "clientId") \/ ~HasText(response, "clientSecret")
           THEN /\ lgCall' = [lgCall EXCEPT ![call] =
                                 Raised(c.kind, response,
                                        Error("Failed to register SSO OIDC client"))]
                /\ UNCHANGED registeredClient
           ELSE /\ registeredClient' = [clientId |-> response.clientId,
                                        clientSecret |-> response.clientSecret,
                                        registeredIn |-> c.profile.ssoRegion]
                /\ lgCall' = [lgCall EXCEPT ![call] =
                                 [c EXCEPT !.pc = RequestPc(c.kind),
                                           !.client = registeredClient']]
        /\ UNCHANGED <<profiles, ssVars>>

\* startLogin after the StartDeviceAuthorization request has settled
DeviceAuthSettled(call, response) ==
    LET c == lgCall[call]
    IN  /\ c.pc = "awaitDeviceAuth"
        /\ lgCall' = [lgCall EXCEPT ![call] =
              IF response.kind = "raise"
              THEN Raised("start", response, response.error)
              ELSE IF \/ ~HasText(response, "deviceCode")
                      \/ ~HasText(response, "verificationUriComplete")
                      \/ ~HasText(response, "userCode")
                      \/ ~HasNumber(response, "interval")
                      \/ ~HasNumber(response, "expiresIn")
              THEN Raised("start", response,
                          Error("Incomplete device authorization response from SSO"))
              ELSE Returned("start", response,
                            [deviceCode |-> response.deviceCode,
                             verificationUri |-> response.verificationUriComplete,
                             userCode |-> response.userCode,
                             intervalSeconds |-> response.interval,
                             expiresAt |-> ExpiresAt(now, response.expiresIn)])]
        /\ UNCHANGED <<registeredClient, profiles, ssVars>>

\* pollForLogin after the CreateToken request has settled
TokenSettled(call, response) ==
    LET c == lgCall[call]
    IN  /\ c.pc = "awaitToken"
        /\ IF response.kind = "raise"
           THEN /\ lgCall' = [lgCall EXCEPT ![call] =
                      IF IsPending(response.error)
                      THEN Returned("poll", response,
                                    [success |-> FALSE, pending |-> TRUE])
                      ELSE Raised("poll", response, Rethrown(response.error))]
                /\ UNCHANGED ssVars
           ELSE IF ~HasText(response, "accessToken") \/ ~HasNumber(response, "expiresIn")
           THEN /\ lgCall' = [lgCall EXCEPT ![call] =
                      Raised("poll", response,
                             Error("Failed to obtain SSO access token"))]
                /\ UNCHANGED ssVars
           ELSE /\ setSsoSession(c.sessionId,
                                 [ssoSession |-> c.profile.ssoSession,
                                  ssoRegion |-> c.profile.ssoRegion,
                                  accessToken |-> response.accessToken,
                                  expiresAt |-> ExpiresAt(now, response.expiresIn)])
                /\ lgCall' = [lgCall EXCEPT ![call] =
                      Returned("poll", response, [success |-> TRUE])]
        /\ UNCHANGED <<registeredClient, profiles>>

StartLogin ==
    /\ \E call \in Calls, profileName \in ProfileNames : startLogin(call, profileName)
    /\ UNCHANGED notLogin

PollForLogin ==
    /\ \E call \in Calls, profileName \in ProfileNames, sessionId \in LoginSessionIds :
          pollForLogin(call, profileName, DeviceCode, sessionId)
    /\ UNCHANGED notLogin

\* one iteration of the browser's poll loop: a poll is requested while no
\* other login call is in flight
PollLoop ==
    /\ \A call \in Calls : Finished(call)
    /\ \E profileName \in ProfileNames, sessionId \in LoginSessionIds :
          pollForLogin(1, profileName, DeviceCode, sessionId)
    /\ UNCHANGED notLogin

RegisterResponse ==
    /\ \E call \in Calls :
          /\ lgCall[call].pc = "awaitRegister"
          /\ \E response \in RegisterResponses : RegisterSettled(call, response)
    /\ UNCHANGED notLogin

DeviceAuthResponse ==
    /\ \E call \in Calls :
          /\ lgCall[call].pc = "awaitDeviceAuth"
          /\ \E response \in DeviceAuthResponses : DeviceAuthSettled(call, response)
    /\ UNCHANGED notLogin

TokenResponse ==
    /\ \E call \in Calls :
          /\ lgCall[call].pc = "awaitToken"
          /\ \E response \in TokenResponses : TokenSettled(call, response)
    /\ UNCHANGED notLogin

\* the configuration file loses or regains the profile "dev"
ProfilesChanged ==
    /\ \E p \in {q \in AllProfiles : q.name = "dev"} :
          profiles' = IF p \in profiles THEN profiles \ {p} ELSE profiles \cup {p}
    /\ UNCHANGED <<registeredClient, lgCall, ssVars>>
    /\ UNCHANGED notLogin

\* a second passes on the clock
SecondPasses ==
    /\ now + SecondMs <= MaxSeconds * SecondMs
    /\ now' = now + SecondMs
    /\ UNCHANGED <<store, getId, getPrior, getTime, getResult, evicted>>
    /\ UNCHANGED notStore

LoginInit ==
    /\ registeredClient = None
    /\ profiles = AllProfiles
    /\ lgCall = [call \in Calls |-> IdleCall]

NextLogin ==
    \/ StartLogin
    \/ PollForLogin
    \/ RegisterResponse
    \/ DeviceAuthResponse
    \/ TokenResponse
    \/ ProfilesChanged

\* logins made one at a time, with the session store read while time passes
NextSession ==
    \/ PollLoop
    \/ RegisterResponse
    \/ TokenResponse
    \/ GetSession
    \/ SecondPasses

(***************************************************************************)
(* Environment descriptors and the registry of discovered environments     *)
(***************************************************************************)
\* `${account.accountId}-${role.roleName}`
EnvId(accountId, roleName) == accountId \o <<"-">> \o roleName

\* `${accountName} (${role.roleName})`
EnvLabel(accountName, roleName) == accountName \o <<" ", "(">> \o roleName \o <<")">>

\* the EnvironmentConfig pushed for an account and a role
MakeEnv(accountId, accountName, roleName, region) ==
    [id |-> EnvId(accountId, roleName),
     label |-> EnvLabel(accountName, roleName),
     regions |-> <<region>>,
     ssoAccountId |-> accountId,
     ssoRoleName |-> roleName]

EnvOne == MakeEnv(<<"1">>, <<"d", "e", "v">>, <<"A">>, "eu-west-1")
EnvOneElsewhere == MakeEnv(<<"1">>, <<"o", "p", "s">>, <<"A">>, "us-east-1")
EnvTwo == MakeEnv(<<"2">>, <<"2">>, <<"R">>, "eu-west-1")
\* descriptors without account id, and with an empty role name
EnvNoAccount == [id |-> <<"3">>, label |-> <<"x">>, regions |-> <<"eu-west-1">>,
                 ssoRoleName |-> <<"A">>]
EnvNoRole == [id |-> <<"4">>, label |-> <<"y">>, regions |-> <<"eu-west-1">>,
              ssoAccountId |-> <<"4">>, ssoRoleName |-> <<>>]

\* the lists handed to registerDynamicEnvironments
EnvLists ==
    {<<>>, <<EnvOne>>, <<EnvOneElsewhere>>, <<EnvOne, EnvTwo>>,
     <<EnvOneElsewhere, EnvOne>>, <<EnvNoAccount, EnvTwo>>, <<EnvNoRole>>}

\* the environment ids asked for
EnvIds == {EnvOne.id, EnvTwo.id, EnvNoAccount.id, EnvNoRole.id, <<"9">>}

\* list.find((e) => e.id === envId): the first element with that id, or None
Find(list, envId) ==
    IF \E k \in 1..Len(list) : list[k].id = envId
    THEN list[CHOOSE k \in 1..Len(list) :
                 list[k].id = envId /\ \A j \in 1..(k - 1) : list[j].id # envId]
    ELSE None

\* dynamicEnvs.set(sessionId, envs)
registerDynamicEnvironments(sessionId, envs) ==
    dynamicEnvs' = [key \in DOMAIN dynamicEnvs \cup {sessionId} |->
                       IF key = sessionId THEN envs ELSE dynamicEnvs[key]]

getDynamicEnvironmentsOfAnySession(sessionId) ==
    IF sessionId \in DOMAIN dynamicEnvs THEN dynamicEnvs[sessionId]
    ELSE IF DOMAIN dynamicEnvs # {}
    THEN dynamicEnvs[CHOOSE other \in DOMAIN dynamicEnvs : TRUE]
    ELSE <<>>

\* dynamicEnvs.get(sessionId) ?? []
getDynamicEnvironments(sessionId) ==
    IF sessionId \in DOMAIN dynamicEnvs THEN dynamicEnvs[sessionId] ELSE <<>>

\* getEnvironment: the descriptor, or the error it throws
getEnvironment(envId, sessionId) ==
    LET dynEnvs == getDynamicEnvironments(sessionId)
        dynEnv == Find(dynEnvs, envId)
    IN  IF dynEnv # None
        THEN [kind |-> "returned", value |-> dynEnv]
        ELSE [kind |-> "raised",
              error |-> ErrorAbout("Unknown environment id: ", envId)]

RegisterEnvs ==
    /\ \E sessionId \in SessionIds, envs \in EnvLists :
          /\ registerDynamicEnvironments(sessionId, envs)
          /\ lastRegistered' = [lastRegistered EXCEPT ![sessionId] = envs]
    /\ UNCHANGED <<geEnvId, geSessionId, geEnvs, geResult>>
    /\ UNCHANGED notRegistry

GetEnvironment ==
    /\ \E envId \in EnvIds, sessionId \in SessionIds :
          /\ geEnvId' = envId
          /\ geSessionId' = sessionId
          /\ geEnvs' = lastRegistered[sessionId]
          /\ geResult' = getEnvironment(envId, sessionId)
    /\ UNCHANGED <<dynamicEnvs, lastRegistered>>
    /\ UNCHANGED notRegistry

RegistryInit ==
    /\ dynamicEnvs = [sessionId \in {} |-> <<>>]
    /\ lastRegistered = [sessionId \in SessionIds |-> <<>>]
    /\ geEnvId = <<>>
    /\ geSessionId = NoSessionId
    /\ geEnvs = <<>>
    /\ geResult = None

NextRegistry ==
    \/ RegisterEnvs
    \/ GetEnvironment

(***************************************************************************)
(* Environment discovery: discoverSsoEnvironments and the endpoint         *)
(* GET /api/sso/environments                                               *)
(***************************************************************************)
\* !r.f for a field holding a string of characters
HasChars(r, f) == f \in DOMAIN r /\ r[f] # <<>>

RoleAdmin == [roleName |-> <<"A">>]
RoleDev == [roleName |-> <<"B">>]
RoleNameless == [other |-> TRUE]
RoleEmptyName == [roleName |-> <<>>]

\* provider data: accounts with the pages of their role listing; a page is
\* [list |-> ...], or a record without list when the provider omits the field
AccountDev ==
    [accountId |-> <<"1">>, accountName |-> <<"d", "e", "v">>,
     rolePages |-> <<[list |-> <<RoleAdmin>>], [list |-> <<RoleNameless, RoleDev>>]>>]
AccountUnnamed ==
    [accountId |-> <<"2">>, rolePages |-> <<[list |-> <<RoleEmptyName, RoleAdmin>>]>>]
AccountNoId == [accountName |-> <<"x">>, rolePages |-> <<[list |-> <<RoleAdmin>>]>>]
AccountEmptyName ==
    [accountId |-> <<"4">>, accountName |-> <<>>, rolePages |-> <<[nolist |-> TRUE]>>]

\* the account pages the provider can hold
Directories ==
    {<<[list |-> <<AccountDev, AccountNoId>>], [list |-> <<AccountUnnamed>>]>>,
     <<[list |-> <<AccountEmptyName, AccountUnnamed>>]>>,
     <<[list |-> <<AccountNoId>>]>>,
     <<[nolist |-> TRUE]>>}

\* the sessions a completed login leaves in the store
ConnectedSessions ==
    {[ssoSession |-> "sso-a", ssoRegion |-> "eu-west-1", accessToken |-> "t1",
      expiresAt |-> 1],
     [ssoSession |-> "sso-b", ssoRegion |-> "us-east-1", accessToken |-> "t2",
      expiresAt |-> MaxTime]}

\* the response to a page request with the given token: page `token` of the
\* listing (the first page for token 0), with nextToken set while pages remain
PageResponse(pages, token) ==
    LET k == IF token = 0 THEN 1 ELSE token
        next == IF k < Len(pages) THEN k + 1 ELSE 0
    IN  IF "list" \in DOMAIN pages[k]
        THEN [kind |-> "ok", list |-> pages[k].list, nextToken |-> next]
        ELSE [kind |-> "ok", nextToken |-> next]

PageResponses(pages, token) ==
    {PageResponse(pages, token),
     [kind |-> "raise", error |-> [name |-> "UnauthorizedException",
                                   message |-> "Session token not found or invalid"]]}

\* res.accountList ?? [], res.roleList ?? []
ListOf(response) == IF "list" \in DOMAIN response THEN response.list ELSE <<>>

DisplayNameIsId(account) == account.accountId

\* account.accountName || account.accountId
DisplayName(account) ==
    IF HasChars(account, "accountName") THEN account.accountName
    ELSE account.accountId

\* the descriptors pushed for one account once its roles are listed
RECURSIVE EnvsOfRoles(_, _, _)
EnvsOfRoles(account, roleList, region) ==
    IF roleList = <<>> THEN <<>>
    ELSE LET role == Head(roleList)
             rest == EnvsOfRoles(account, Tail(roleList), region)
         IN  IF ~HasChars(role, "roleName") THEN rest
             ELSE <<MakeEnv(account.accountId, DisplayName(account),
                            role.roleName, region)>> \o rest

\* the position of the first account at or after `from` that has an id, or 0
NextAccount(accountList, from) ==
    LET withId == {k \in from..Len(accountList) : HasChars(accountList[k], "accountId")}
    IN  IF withId = {} THEN 0 ELSE CHOOSE k \in withId : \A j \in withId : k <= j

AccountsRequest(session, token) ==
    [kind |-> "accounts", accessToken |-> session.accessToken, nextToken |-> token]
RolesRequest(session, accountId, token) ==
    [kind |-> "roles", accessToken |-> session.accessToken, accountId |-> accountId,
     nextToken |-> token]

\* res.status(code).json({ error }) and res.json(envs)
RespondError(code, message) == [status |-> code, error |-> message, body |-> <<>>]
RespondEnvs(envs) == [status |-> 200, error |-> "", body |-> envs]

\* the role pages the provider holds for an account id
RolePagesOf(directory, accountId) ==
    LET all == [k \in 1..Len(directory) |-> ListOf(directory[k])]
        holds == {kj \in (1..Len(directory)) \X (1..4) :
                     /\ kj[2] <= Len(all[kj[1]])
                     /\ HasChars(all[kj[1]][kj[2]], "accountId")
                     /\ all[kj[1]][kj[2]].accountId = accountId}
        first == CHOOSE kj \in holds : \A other \in holds :
                     kj[1] < other[1] \/ (kj[1] = other[1] /\ kj[2] <= other[2])
    IN  all[first[1]][first[2]].rolePages

\* the endpoint before a request, and while none is being handled
NoRequest ==
    [pc |-> "idle", sessionId |-> NoSessionId, session |-> None, directory |-> <<>>,
     accounts |-> <<>>, nextToken |-> 0, account |-> 0, roles |-> <<>>,
     roleNextToken |-> 0, environments |-> <<>>, requests |-> <<>>,
     settled |-> None, response |-> None]

\* the endpoint answers with an error; nothing is registered
Answer(from, code, message) ==
    /\ ds' = [from EXCEPT !.pc = "done", !.response = RespondError(code, message)]
    /\ UNCHANGED <<dynamicEnvs, lastRegistered>>

FailRegisteringPartial(from, error) ==
    /\ registerDynamicEnvironments(from.sessionId, from.environments)
    /\ lastRegistered' = [lastRegistered EXCEPT ![from.sessionId] = from.environments]
    /\ ds' = [from EXCEPT !.pc = "done", !.response = RespondError(500, error.message)]

\* a page request raises: discoverSsoEnvironments raises, the endpoint's
\* catch answers 500
Fail(from, error) == Answer(from, 500, error.message)

\* discoverSsoEnvironments returns envs: the endpoint registers and sends them
ReturnEnvironments(from, envs) ==
    /\ registerDynamicEnvironments(from.sessionId, envs)
    /\ lastRegistered' = [lastRegistered EXCEPT ![from.sessionId] = envs]
    /\ ds' = [from EXCEPT !.pc = "done", !.response = RespondEnvs(envs)]

\* for (const account of accounts), from position `from` on: the role listing
\* of the next account with an id is requested, or the function returns
EnterAccount(from, position) ==
    LET k == NextAccount(from.accounts, position)
    IN  IF k = 0
        THEN ReturnEnvironments(from, from.environments)
        ELSE /\ ds' = [from EXCEPT
                          !.pc = "awaitRoles", !.account = k, !.roles = <<>>,
                          !.roleNextToken = 0,
                          !.requests = Append(from.requests,
                              RolesRequest(from.session, from.accounts[k].accountId, 0))]
             /\ UNCHANGED <<dynamicEnvs, lastRegistered>>

\* if (!session)
HasActiveSession(session) == session # None

\* GET /api/sso/environments up to the first account page request
environments(sessionId, directory) ==
    /\ ds.pc \in {"idle", "done"}
    /\ IF sessionId = ""
       THEN /\ Answer([NoRequest EXCEPT !.sessionId = sessionId], 400,
                      "sessionId is required")
            /\ UNCHANGED ssVars
       ELSE /\ getSsoSession(sessionId)
            /\ IF ~HasActiveSession(getResult')
               THEN Answer([NoRequest EXCEPT !.sessionId = sessionId], 401,
                           "No active SSO session. Please connect first.")
               ELSE /\ ds' = [NoRequest EXCEPT
                                 !.pc = "awaitAccounts", !.sessionId = sessionId,
                                 !.session = getResult', !.directory = directory,
                                 !.requests = <<AccountsRequest(getResult', 0)>>]
                    /\ UNCHANGED <<dynamicEnvs, lastRegistered>>

\* discoverSsoEnvironments after a ListAccounts request has settled
AccountsSettled(response) ==
    /\ ds.pc = "awaitAccounts"
    /\ IF response.kind = "raise"
       THEN Fail([ds EXCEPT !.settled = response], response.error)
       ELSE LET gathered == [ds EXCEPT !.accounts = ds.accounts \o ListOf(response),
                                       !.nextToken = response.nextToken,
                                       !.settled = response]
            IN  IF gathered.nextToken # 0
                THEN /\ ds' = [gathered EXCEPT !.requests = Append(ds.requests,
                                   AccountsRequest(ds.session, gathered.nextToken))]
                     /\ UNCHANGED <<dynamicEnvs, lastRegistered>>
                ELSE EnterAccount(gathered, 1)
    /\ UNCHANGED ssVars

\* discoverSsoEnvironments after a ListAccountRoles request has settled
RolesSettled(response) ==
    /\ ds.pc = "awaitRoles"
    /\ IF response.kind = "raise"
       THEN Fail([ds EXCEPT !.settled = response], response.error)
       ELSE LET account == ds.accounts[ds.account]
                gathered == [ds EXCEPT !.roles = ds.roles \o ListOf(response),
                                       !.roleNextToken = response.nextToken,
                                       !.settled = response]
            IN  IF gathered.roleNextToken # 0
                THEN /\ ds' = [gathered EXCEPT !.requests = Append(ds.requests,
                                   RolesRequest(ds.session, account.accountId,
                                                gathered.roleNextToken))]
                     /\ UNCHANGED <<dynamicEnvs, lastRegistered>>
                ELSE EnterAccount(
                         [gathered EXCEPT !.environments = ds.environments \o
                              EnvsOfRoles(account, gathered.roles, ds.session.ssoRegion)],
                         ds.account + 1)
    /\ UNCHANGED ssVars

EnvironmentsRequest ==
    /\ \E sessionId \in SessionIds \cup {""}, directory \in Directories :
          environments(sessionId, directory)
    /\ UNCHANGED <<geEnvId, geSessionId, geEnvs, geResult>>
    /\ UNCHANGED notDiscovery

AccountsResponse ==
    /\ ds.pc = "awaitAccounts"
    /\ \E response \in PageResponses(ds.directory, ds.nextToken) :
          AccountsSettled(response)
    /\ UNCHANGED <<geEnvId, geSessionId, geEnvs, geResult>>
    /\ UNCHANGED notDiscovery

RolesResponse ==
    /\ ds.pc = "awaitRoles"
    /\ \E response \in PageResponses(
              RolePagesOf(ds.directory, ds.requests[Len(ds.requests)].accountId),
              ds.roleNextToken) :
          RolesSettled(response)
    /\ UNCHANGED <<geEnvId, geSessionId, geEnvs, geResult>>
    /\ UNCHANGED notDiscovery

\* a login completes and stores its session
LoginCompleted ==
    /\ \E sessionId \in SessionIds, session \in ConnectedSessions :
          setSsoSession(sessionId, session)
    /\ UNCHANGED notStore

DiscoveryInit == ds = NoRequest

NextDiscovery ==
    \/ EnvironmentsRequest
    \/ AccountsResponse
    \/ RolesResponse
    \/ LoginCompleted
    \/ Tick

(***************************************************************************)
(* Credential resolution: createSqsClient, and the three operations that   *)
(* start with it (listQueues, previewDlqMessages, redriveMessages)         *)
(***************************************************************************)
Operations == {"listQueues", "previewDlqMessages", "redriveMessages"}

\* the environment ids the operations are called with
CallEnvIds == {EnvOne.id, EnvNoAccount.id, EnvNoRole.id, <<"9">>}

\* the lists registered before the operations are called
RegisteredLists == {<<EnvOne>>, <<EnvNoAccount, EnvNoRole>>}

\* what the provider answers to GetRoleCredentials
RoleCredentialsResponses ==
    {[kind |-> "raise", error |-> [name |-> "UnauthorizedException",
                                   message |-> "Session token not found or invalid"]],
     [kind |-> "ok"],
     [kind |-> "ok", roleCredentials |-> [accessKeyId |-> "AK"]],
     [kind |-> "ok", roleCredentials |-> [accessKeyId |-> "", secretAccessKey |-> "SK"]],
     [kind |-> "ok", roleCredentials |-> [accessKeyId |-> "AK", secretAccessKey |-> "SK"]],
     [kind |-> "ok", roleCredentials |-> [accessKeyId |-> "AK", secretAccessKey |-> "SK",
                                          sessionToken |-> "ST"]]}

\* what the queue service answers to ListQueues
ListResponses ==
    {[kind |-> "raise", error |-> [name |-> "AccessDenied", message |-> "Access denied"]],
     [kind |-> "ok"],
     [kind |-> "ok", QueueUrls |-> <<"q1", "q2">>]}

CredentialsMissing(response) == "roleCredentials" \notin DOMAIN response

\* !rc || !rc.accessKeyId || !rc.secretAccessKey
CredentialsIncomplete(response) ==
    \/ "roleCredentials" \notin DOMAIN response
    \/ ~HasText(response.roleCredentials, "accessKeyId")
    \/ ~HasText(response.roleCredentials, "secretAccessKey")

\* no request received yet
NoRequestYet == [pc |-> "idle"]

\* no operation called yet
NoCall ==
    [pc |-> "idle", op |-> "none", envId |-> <<>>, region |-> "", sessionId |-> NoSessionId,
     atCall |-> None, request |-> None, settled |-> None,
     error |-> None, result |-> <<>>]

\* createSqsClient throws
Throw(call, error) ==
    cr' = [call EXCEPT !.pc = "raised", !.error = error, !.atCall = None,
                       !.request = None]

ResolveAccountInfoFirst(call, env, session) ==
    IF ~HasChars(env.value, "ssoAccountId") \/ ~HasChars(env.value, "ssoRoleName")
    THEN Throw(call, Error("Environment is missing SSO account info"))
    ELSE IF session = None
    THEN Throw(call, Error("No active SSO session for this client"))
    ELSE cr' = [call EXCEPT
                   !.pc = "awaitRoleCreds",
                   !.request = [accessToken |-> session.accessToken,
                                accountId |-> env.value.ssoAccountId,
                                roleName |-> env.value.ssoRoleName]]

\* createSqsClient from the session check to the GetRoleCredentials request,
\* for the descriptor found
Resolve(call, env, session) ==
    IF session = None
    THEN Throw(call, Error("No active SSO session for this client"))
    ELSE IF ~HasChars(env.value, "ssoAccountId") \/ ~HasChars(env.value, "ssoRoleName")
    THEN Throw(call, Error("Environment is missing SSO account info"))
    ELSE cr' = [call EXCEPT
                   !.pc = "awaitRoleCreds",
                   !.request = [accessToken |-> session.accessToken,
                                accountId |-> env.value.ssoAccountId,
                                roleName |-> env.value.ssoRoleName]]

\* what held when the operation was called: the environment id is in the
\* list last registered for the session id, with account id and role name,
\* and a session that has not expired is stored under the session id
ConditionsAtCall(envId, sessionId) ==
    LET list == lastRegistered[sessionId]
        holds == {k \in 1..Len(list) : list[k].id = envId}
        first == CHOOSE k \in holds : \A j \in holds : k <= j
    IN  [registered |-> holds # {},
         accountInfo |-> /\ holds # {}
                         /\ "ssoAccountId" \in DOMAIN list[first]
                         /\ list[first].ssoAccountId # <<>>
                         /\ "ssoRoleName" \in DOMAIN list[first]
                         /\ list[first].ssoRoleName # <<>>,
         session |-> /\ store[sessionId] # None
                     /\ (store[sessionId].expiresAt = Unset
                             \/ store[sessionId].expiresAt > now)]

\* listQueues, previewDlqMessages, redriveMessages up to their first
\* suspension, inside createSqsClient
createSqsClient(op, envId, region, sessionId) ==
    LET call == [NoCall EXCEPT !.op = op, !.envId = envId, !.region = region,
                               !.sessionId = sessionId,
                               !.atCall = ConditionsAtCall(envId, sessionId)]
        env == getEnvironment(envId, sessionId)
    IN  /\ cr.pc \in {"idle", "raised", "returned"}
        /\ op = "previewDlqMessages" => fPc = "idle"
        /\ op = "redriveMessages" => rdPc = "idle"
        /\ IF env.kind = "raised"
           THEN /\ Throw(call, env.error)
                /\ UNCHANGED ssVars
           ELSE /\ getSsoSession(sessionId)
                /\ Resolve(call, env, getResult')

\* the input of the one redrive and the one preview made
CallMessages == RedriveInput(1, "distinct")
CallOptions == [maxMessages |-> 1]

DefaultMaxMessages == 200

\* the options the preview is called with: by POST /api/preview,
\* { maxMessages: maxMessages ?? 200 }
OptionsOfCall ==
    IF rq.pc = "called"
    THEN [maxMessages |-> IF "maxMessages" \in DOMAIN rq.body
                          THEN rq.body.maxMessages ELSE DefaultMaxMessages]
    ELSE CallOptions

\* deleteAfterSend of the redrive: by POST /api/redrive, Boolean(deleteAfterSend)
FlagOfCall ==
    rq.pc = "called" /\ "deleteAfterSend" \in DOMAIN rq.body /\ rq.body.deleteAfterSend

\* createSqsClient after the GetRoleCredentials request has settled, and the
\* operation up to its first queue request
RoleCredentialsSettled(response) ==
    /\ cr.pc = "awaitRoleCreds"
    /\ IF response.kind = "raise"
       THEN /\ Throw([cr EXCEPT !.settled = response], response.error)
            /\ UNCHANGED <<rdVars, fVars>>
       ELSE IF CredentialsIncomplete(response)
       THEN /\ Throw([cr EXCEPT !.settled = response],
                     Error("Failed to get role credentials from SSO for environment"))
            /\ UNCHANGED <<rdVars, fVars>>
       ELSE IF cr.op = "listQueues"
       THEN /\ cr' = [cr EXCEPT !.pc = "awaitList", !.settled = response]
            /\ UNCHANGED <<rdVars, fVars>>
       ELSE IF cr.op = "previewDlqMessages"
       THEN /\ cr' = [cr EXCEPT !.pc = "client", !.settled = response]
            /\ FetchCall(OptionsOfCall)
            /\ UNCHANGED rdVars
       ELSE /\ cr' = [cr EXCEPT !.pc = "client", !.settled = response]
            /\ RedriveCall(CallMessages, FlagOfCall)
            /\ UNCHANGED fVars
    /\ UNCHANGED <<ssVars, regVars>>

\* listQueues after the ListQueues request has settled
ListSettled(response) ==
    /\ cr.pc = "awaitList"
    /\ cr' = IF response.kind = "raise"
             THEN [cr EXCEPT !.pc = "raised", !.error = response.error,
                             !.atCall = None, !.request = None]
             ELSE [cr EXCEPT !.pc = "returned", !.atCall = None, !.request = None,
                             !.result = IF "QueueUrls" \in DOMAIN response
                                        THEN response.QueueUrls ELSE <<>>]
    /\ UNCHANGED <<ssVars, regVars, rdVars, fVars>>

OperationCall ==
    /\ \E op \in Operations, envId \in CallEnvIds, sessionId \in SessionIds :
          createSqsClient(op, envId, "eu-west-1", sessionId)
    /\ UNCHANGED <<regVars, rdVars, fVars>>
    /\ UNCHANGED notCredentials

RoleCredentialsResponse ==
    /\ cr.pc = "awaitRoleCreds"
    /\ \E response \in RoleCredentialsResponses : RoleCredentialsSettled(response)
    /\ UNCHANGED notCredentials

ListResponse ==
    /\ cr.pc = "awaitList"
    /\ \E response \in ListResponses : ListSettled(response)
    /\ UNCHANGED notCredentials

\* a discovery completes and registers its descriptors
EnvsRegistered ==
    /\ \E sessionId \in SessionIds, envs \in RegisteredLists :
          /\ registerDynamicEnvironments(sessionId, envs)
          /\ lastRegistered' = [lastRegistered EXCEPT ![sessionId] = envs]
    /\ UNCHANGED <<geEnvId, geSessionId, geEnvs, geResult>>
    /\ UNCHANGED notRegistry

CredentialsInit == cr = NoCall

NextCredentials ==
    \/ OperationCall
    \/ RoleCredentialsResponse
    \/ ListResponse
    \/ SendResponse
    \/ ReceiveResponse
    \/ EnvsRegistered
    \/ LoginCompleted
    \/ Tick

(***************************************************************************)
(* Attribute filter: getByPath and filterByAttributePath                   *)
(***************************************************************************)
MaxListLen == 2      \* longest message list handed to filterByAttributePath

\* JSON values: [t |-> "num", n |-> ...], [t |-> "str", s |-> characters],
\* [t |-> "bool", b |-> ...], [t |-> "null"], [t |-> "obj", fields |-> function
\* from keys to values], [t |-> "arr", items |-> sequence]; besides them the
\* values a property access can yield: undefined and a function
JsUndefined == [t |-> "undefined"]
JsFunction == [t |-> "fn"]
JsNull == [t |-> "null"]
JsNum(n) == [t |-> "num", n |-> n]
JsStr(s) == [t |-> "str", s |-> s]
JsBool(b) == [t |-> "bool", b |-> b]
JsArr(items) == [t |-> "arr", items |-> items]
JsObj(fields) == [t |-> "obj", fields |-> fields]

KeyType == <<"t", "y", "p", "e">>
KeyN == <<"n">>
KeyOk == <<"o", "k">>
KeyNil == <<"n", "i", "l">>
KeyUser == <<"u", "s", "e", "r">>
KeyId == <<"i", "d">>
KeyTags == <<"t", "a", "g", "s">>
KeyLength == <<"l", "e", "n", "g", "t", "h">>
KeyConstructor == <<"c", "o", "n", "s", "t", "r", "u", "c", "t", "o", "r">>
Dot == <<".">>

\* an object literal with the given keys and values
Object(keys, values) ==
    JsObj([key \in {keys[k] : k \in 1..Len(keys)} |->
              values[CHOOSE k \in 1..Len(keys) : keys[k] = key]])

\* the message bodies: "none" stands for a message without Body
Bodies == {OrderText, RefundText, NumberText, NullText, BrokenText, "", "none"}

\* JSON.parse of the bodies above: the value, or the error raised
JSONparse(text) ==
    CASE text = OrderText ->
            [kind |-> "ok",
             value |-> Object(<<KeyType, KeyN, KeyOk, KeyNil, KeyUser>>,
                              <<JsStr(<<"o", "r", "d", "e", "r">>), JsNum(5), JsBool(TRUE),
                                JsNull,
                                Object(<<KeyId, KeyTags>>,
                                       <<JsNum(7), JsArr(<<JsStr(<<"a">>), JsStr(<<"b">>)>>)>>)>>)]
      [] text = RefundText ->
            [kind |-> "ok",
             value |-> Object(<<KeyType, KeyN>>,
                              <<JsStr(<<"r", "e", "f", "u", "n", "d">>), JsNum(10)>>)]
      [] text = NumberText -> [kind |-> "ok", value |-> JsNum(5)]
      [] text = NullText -> [kind |-> "ok", value |-> JsNull]
      [] OTHER -> [kind |-> "raise", message |-> "Unexpected end of JSON input"]

\* the message at a position of the list, with the given body
RawMessage(position, body) ==
    IF body = "none"
    THEN [MessageId |-> <<"m">> \o ToDigits(position)]
    ELSE [MessageId |-> <<"m">> \o ToDigits(position), Body |-> body]

\* path.split(".")
RECURSIVE Split(_)
Split(path) ==
    IF \A k \in 1..Len(path) : path[k] # "."
    THEN <<path>>
    ELSE LET dot == CHOOSE k \in 1..Len(path) :
                        path[k] = "." /\ \A j \in 1..(k - 1) : path[j] # "."
         IN  <<SubSeq(path, 1, dot - 1)>> \o Split(SubSeq(path, dot + 1, Len(path)))

\* current[part]
Member(current, part) ==
    IF current.t = "obj"
    THEN IF part \in DOMAIN current.fields THEN current.fields[part]
         ELSE IF part = KeyConstructor THEN JsFunction
         ELSE JsUndefined
    ELSE IF \E k \in 1..Len(current.items) : ToDigits(k - 1) = part
         THEN current.items[CHOOSE k \in 1..Len(current.items) : ToDigits(k - 1) = part]
         ELSE IF part = KeyLength THEN JsNum(Len(current.items))
         ELSE IF part = KeyConstructor THEN JsFunction
         ELSE JsUndefined

\* the loop of getByPath over the parts left
RECURSIVE Walk(_, _)
Walk(current, parts) ==
    IF parts = <<>> THEN current
    ELSE IF current.t \notin {"obj", "arr"} THEN JsUndefined
    ELSE Walk(Member(current, Head(parts)), Tail(parts))

getByPath(obj, path) ==
    IF path = <<>> THEN JsUndefined ELSE Walk(obj, Split(path))

\* String(value)
RECURSIVE StringOf(_)
StringOf(value) ==
    CASE value.t = "num" -> ToDigits(value.n)
      [] value.t = "str" -> value.s
      [] value.t = "bool" -> IF value.b THEN <<"t", "r", "u", "e">>
                             ELSE <<"f", "a", "l", "s", "e">>
      [] value.t = "null" -> <<"n", "u", "l", "l">>
      [] value.t = "obj" -> <<"[", "o", "b", "j", "e", "c", "t", " ",
                              "O", "b", "j", "e", "c", "t", "]">>
      [] value.t = "arr" ->
            IF value.items = <<>> THEN <<>>
            ELSE LET first == IF Head(value.items).t = "null" THEN <<>>
                              ELSE StringOf(Head(value.items))
                 IN  IF Len(value.items) = 1 THEN first
                     ELSE first \o <<",">> \o StringOf(JsArr(Tail(value.items)))
      [] OTHER -> <<"f", "u", "n", "c", "t", "i", "o", "n", " ", "O", "b", "j", "e", "c", "t",
                    "(", ")", " ", "{", " ", "[", "n", "a", "t", "i", "v", "e", " ",
                    "c", "o", "d", "e", "]", " ", "}">>

KeepMatching(exclude, matches) == matches

\* exclude ? !matches : matches
Keep(exclude, matches) == IF exclude THEN ~matches ELSE matches

\* one pass of the loop: the entries pushed for msg (none or one)
Pushed(msg, attributePath, expectedValue, exclude) ==
    IF "Body" \notin DOMAIN msg \/ msg.Body = "" THEN <<>>
    ELSE LET parsed == JSONparse(msg.Body)
         IN  IF parsed.kind = "raise"
             THEN <<[raw |-> msg, parseError |-> parsed.message]>>
             ELSE LET value == getByPath(parsed.value, attributePath)
                  IN  IF value.t = "undefined"
                      THEN IF exclude
                           THEN <<[raw |-> msg, parsedBody |-> parsed.value,
                                   attributeValue |-> JsUndefined]>>
                           ELSE <<>>
                      ELSE IF Keep(exclude, StringOf(value) = expectedValue)
                           THEN <<[raw |-> msg, parsedBody |-> parsed.value,
                                   attributeValue |-> value]>>
                           ELSE <<>>

RECURSIVE filterByAttributePath(_, _, _, _)
filterByAttributePath(messages, attributePath, expectedValue, exclude) ==
    IF messages = <<>> THEN <<>>
    ELSE Pushed(Head(messages), attributePath, expectedValue, exclude)
             \o filterByAttributePath(Tail(messages), attributePath, expectedValue, exclude)

\* the attribute paths and expected values tried
Paths ==
    {<<>>, KeyType, KeyN, KeyNil, KeyOk, KeyUser, <<"x">>, KeyConstructor,
     KeyUser \o Dot \o KeyId,
     KeyUser \o Dot \o KeyTags,
     KeyUser \o Dot \o KeyTags \o Dot \o <<"1">>,
     KeyUser \o Dot \o KeyTags \o Dot \o KeyLength,
     KeyUser \o Dot \o Dot \o KeyId,
     KeyType \o Dot \o KeyLength,
     KeyNil \o Dot \o KeyId}

ExpectedValues ==
    {<<>>, <<"o", "r", "d", "e", "r">>, <<"5">>, <<"7">>, <<"2">>, <<"b">>,
     <<"a", ",", "b">>, <<"t", "r", "u", "e">>, <<"n", "u", "l", "l">>,
     <<"[", "o", "b", "j", "e", "c", "t", " ", "O", "b", "j", "e", "c", "t", "]">>}

MessageLists ==
    UNION {{[k \in 1..n |-> RawMessage(k, bodies[k])] : bodies \in [1..n -> Bodies]} :
              n \in 0..MaxListLen}

FilterInput(messages, attributePath, expectedValue) ==
    [messages |-> messages, attributePath |-> attributePath,
     expectedValue |-> expectedValue, ran |-> {}, matching |-> <<>>,
     excluding |-> <<>>]

\* filterByAttributePath(messages, attributePath, expectedValue, false)
FilterMatching ==
    /\ "matching" \notin fl.ran
    /\ fl' = [fl EXCEPT
                 !.matching = filterByAttributePath(fl.messages, fl.attributePath,
                                                    fl.expectedValue, FALSE),
                 !.ran = fl.ran \cup {"matching"}]
    /\ UNCHANGED notFilter

\* filterByAttributePath(messages, attributePath, expectedValue, true)
FilterExcluding ==
    /\ "excluding" \notin fl.ran
    /\ fl' = [fl EXCEPT
                 !.excluding = filterByAttributePath(fl.messages, fl.attributePath,
                                                     fl.expectedValue, TRUE),
                 !.ran = fl.ran \cup {"excluding"}]
    /\ UNCHANGED notFilter

FilterInit == fl = FilterInput(<<>>, <<>>, <<>>)

\* every message list, path and expected value
FilterInputs ==
    fl \in {FilterInput(messages, attributePath, expectedValue) :
               messages \in MessageLists, attributePath \in Paths,
               expectedValue \in ExpectedValues}

NextFilter ==
    \/ FilterMatching
    \/ FilterExcluding

(***************************************************************************)
(* The endpoints GET /api/queues, POST /api/preview, POST /api/redrive     *)
(***************************************************************************)
Routes == {"queues", "preview", "redrive"}

\* the operation a route calls
OperationOf(route) ==
    CASE route = "queues" -> "listQueues"
      [] route = "preview" -> "previewDlqMessages"
      [] OTHER -> "redriveMessages"

\* a request that carries every input the routes require
CompleteInputs ==
    [envId : {EnvOne.id, <<"9">>}, region : {"eu-west-1", "us-east-1"},
     sessionId : SessionIds, dlqUrl : {DlqUrl}]

\* a request that passes the region test if its environment is registered
PassingInputs == {r \in CompleteInputs : r.envId = EnvOne.id /\ r.region = "eu-west-1"}

\* requests that leave one required input out (it is the empty text)
LackingInputs ==
    {[r EXCEPT !.envId = <<>>] : r \in PassingInputs}
        \cup {[r EXCEPT !.region = ""] : r \in PassingInputs}
        \cup {[r EXCEPT !.sessionId = ""] : r \in PassingInputs}
        \cup {[r EXCEPT !.dlqUrl = ""] : r \in PassingInputs}

\* attributePath, expectedValue and excludeMatching as a preview request
\* carries them, or leaves them out
FilterInputs3 ==
    {[attributePath |-> attributePath, expectedValue |-> expectedValue,
      excludeMatching |-> excludeMatching] :
        attributePath \in {<<>>, KeyType},
        expectedValue \in {JsStr(<<"o", "r", "d", "e", "r">>), JsNull},
        excludeMatching \in BOOLEAN}
        \cup {[attributePath |-> KeyType],
              [expectedValue |-> JsStr(<<"o", "r", "d", "e", "r">>)],
              [excludeMatching |-> TRUE],
              [attributePath |-> KeyUser \o Dot \o KeyId, expectedValue |-> JsNum(7)]}

\* the requests a client sends to a route
RequestsTo(route) ==
    CASE route = "queues" -> CompleteInputs \cup LackingInputs
      [] route = "preview" ->
            CompleteInputs \cup LackingInputs
                \cup {r @@ f @@ [maxMessages |-> 2] :
                         r \in PassingInputs, f \in FilterInputs3}
      [] OTHER ->
            {r @@ [targetUrl |-> TargetUrl, messages |-> CallMessages] :
                r \in CompleteInputs \cup LackingInputs}
                \cup {r @@ [targetUrl |-> TargetUrl, messages |-> CallMessages,
                            deleteAfterSend |-> TRUE] : r \in PassingInputs}
                \cup {r @@ [targetUrl |-> "", messages |-> CallMessages] :
                         r \in PassingInputs}
                \cup {r @@ [targetUrl |-> TargetUrl] : r \in PassingInputs}

\* the test that answers 400 "... are required"
MissingInput(route, request) ==
    \/ request.envId = <<>>
    \/ request.region = ""
    \/ request.sessionId = ""
    \/ route # "queues" /\ request.dlqUrl = ""
    \/ route = "redrive" /\ (request.targetUrl = "" \/ "messages" \notin DOMAIN request)

RequiredMessage(route) ==
    CASE route = "queues" -> "envId, region and sessionId are required"
      [] route = "preview" -> "envId, region, dlqUrl and sessionId are required"
      [] OTHER -> "envId, region, dlqUrl, targetUrl, sessionId and messages[] are required"

\* env.regions.includes(region)
Includes(regions, region) == \E k \in 1..Len(regions) : regions[k] = region

\* the handler calls the operation, which runs up to its first suspension
CallOperation(route, request) ==
    /\ createSqsClient(OperationOf(route), request.envId, request.region,
                       request.sessionId)
    /\ rq' = [pc |-> "called", route |-> route, body |-> request]
    /\ UNCHANGED <<rdVars, fVars>>

RefuseWithoutReturn(route, request, message) ==
    /\ rq' = [pc |-> "refused", route |-> route, status |-> 400, error |-> message]
    /\ IF MissingInput(route, request)
       THEN UNCHANGED <<cr, ssVars, rdVars, fVars>>
       ELSE /\ createSqsClient(OperationOf(route), request.envId, request.region,
                               request.sessionId)
            /\ UNCHANGED <<rdVars, fVars>>

\* res.status(400).json({ error: message }); return;
Refuse(route, request, message) ==
    /\ rq' = [pc |-> "refused", route |-> route, status |-> 400, error |-> message]
    /\ UNCHANGED <<cr, ssVars, rdVars, fVars>>

\* the operation the request last received has called is still running
OperationRunning ==
    /\ rq.pc = "called"
    /\ \/ cr.pc \in {"awaitRoleCreds", "awaitList"}
       \/ cr.pc = "client" /\ rq.route = "preview" /\ fPc = "awaitReceive"
       \/ cr.pc = "client" /\ rq.route = "redrive" /\ rdPc \in {"awaitSend", "awaitDelete"}

\* the request last received has been answered and was no preview or
\* redrive that reached the queue: the model follows one of these, and any
\* number of other requests before it
TakesRequests == rq.pc # "called" \/ cr.pc \in {"raised", "returned"}

\* a handler from the receipt of the request to its 400 or, through
\* getEnvironment and the region test, to the first suspension of its operation;
\* requests are handled one after the other
Handle(route, request) ==
    /\ TakesRequests
    /\ IF MissingInput(route, request)
       THEN Refuse(route, request, RequiredMessage(route))
       ELSE LET env == getEnvironment(request.envId, request.sessionId)
            IN  IF env.kind = "raised"
                THEN /\ rq' = [pc |-> "failed", route |-> route, status |-> 500,
                               error |-> env.error.message]
                     /\ UNCHANGED <<cr, ssVars, rdVars, fVars>>
                ELSE IF ~Includes(env.value.regions, request.region)
                THEN Refuse(route, request, "Region not allowed for this environment")
                ELSE CallOperation(route, request)

Request ==
    /\ \E route \in Routes : \E request \in RequestsTo(route) : Handle(route, request)
    /\ UNCHANGED regVars
    /\ UNCHANGED notRequests

UseFilterOnPathAlone(body) ==
    "attributePath" \in DOMAIN body /\ body.attributePath # <<>>

\* attributePath && expectedValue !== undefined
UseFilter(body) ==
    /\ "attributePath" \in DOMAIN body
    /\ body.attributePath # <<>>
    /\ "expectedValue" \in DOMAIN body

\* String(expectedValue)
ExpectedText(body) ==
    IF "expectedValue" \in DOMAIN body THEN StringOf(body.expectedValue)
    ELSE <<"u", "n", "d", "e", "f", "i", "n", "e", "d">>

\* Boolean(excludeMatching)
ExcludeMatching(body) == "excludeMatching" \in DOMAIN body /\ body.excludeMatching

\* messages.map((m) => ({ raw: m, parsedBody: undefined, attributeValue: undefined }))
Unfiltered(messages) ==
    [k \in 1..Len(messages) |->
        [raw |-> messages[k], parsedBody |-> JsUndefined, attributeValue |-> JsUndefined]]

\* one element of the response's messages; JSON leaves out what is undefined
ResponseMessage(m) ==
    LET base == [messageId |-> m.raw.MessageId, receiptHandle |-> m.raw.ReceiptHandle]
        withBody == IF "Body" \in DOMAIN m.raw THEN base @@ [body |-> m.raw.Body]
                    ELSE base
        withValue == IF "attributeValue" \in DOMAIN m /\ m.attributeValue.t # "undefined"
                     THEN withBody @@ [attributeValue |-> m.attributeValue]
                     ELSE withBody
    IN  IF "parseError" \in DOMAIN m THEN withValue @@ [parseError |-> m.parseError]
        ELSE withValue

\* POST /api/preview after previewDlqMessages has returned messages
PreviewResponse(messages, body) ==
    LET filtered == IF UseFilter(body)
                    THEN filterByAttributePath(messages, body.attributePath,
                                               ExpectedText(body),
                                               ExcludeMatching(body))
                    ELSE Unfiltered(messages)
    IN  [totalFetched |-> Len(messages),
         totalMatched |-> Len(filtered),
         messages |-> [k \in 1..Len(filtered) |-> ResponseMessage(filtered[k])]]

\* what the request last received has been answered: the status, with the
\* error or the body; status 0 while its operation is running
Response ==
    CASE rq.pc = "idle" -> [status |-> 0]
      [] rq.pc \in {"refused", "failed"} -> [status |-> rq.status, error |-> rq.error]
      [] OperationRunning -> [status |-> 0]
      [] cr.pc = "raised" -> [status |-> 500, error |-> cr.error.message]
      [] rq.route = "queues" -> [status |-> 200, body |-> [queues |-> cr.result]]
      [] rq.route = "preview" ->
            [status |-> 200, body |-> PreviewResponse(fMessages, rq.body)]
      [] rdPc = "raised" -> [status |-> 500, error |-> rdError.message]
      [] OTHER -> [status |-> 200, body |-> rdResult]

NextRequests ==
    \/ Request
    \/ RoleCredentialsResponse
    \/ ListResponse
    \/ ReceiveResponse
    \/ SendResponse
    \/ DeleteResponse

(***************************************************************************)
(* The login flow of a caller: startLogin, then pollForLogin repeated      *)
(* while the result is pending (src/public/app.js:96-167), made by direct  *)
(* calls or through the rate-limited endpoints (src/unnamed/part_002:47-92)*)
(***************************************************************************)
MaxPolls == 3        \* polls a direct caller makes in one flow
MaxRejected == 2     \* requests a client makes beyond its budget in one window

RateMax == 20        \* max: 20

Browser == "browser"
Clients == {Browser, "other"}

NoFlow == [pc |-> "idle", profileName |-> "", polls |-> 0, expiresAt |-> 0,
           answer |-> "none"]

\* the flow is not running: no click yet, or the handler has finished
Resting == lp.pc \in {"idle", "succeeded", "failed"}

\* the flow after the login call c has got as far as it gets in this step:
\* a raised call ends the flow in the catch block, a returned startLogin
\* starts the poll loop, a returned poll ends the loop when res.success
FlowAfter(c, flow) ==
    IF c.pc = "raised"
    THEN [flow EXCEPT !.pc = "failed", !.answer = "raised"]
    ELSE IF c.pc = "returned" /\ c.kind = "start"
    THEN [flow EXCEPT !.pc = "polling", !.answer = "returned",
                      !.expiresAt = c.value.expiresAt]
    ELSE IF c.pc = "returned" /\ c.kind = "poll"
    THEN [flow EXCEPT !.pc = IF c.value.success THEN "succeeded" ELSE "polling",
                      !.answer = "returned"]
    ELSE flow

\* the click: startLogin for the chosen profile
BeginFlow(profileName) ==
    /\ Resting
    /\ Finished(1)
    /\ startLogin(1, profileName)
    /\ lp' = FlowAfter(lgCall'[1], [NoFlow EXCEPT !.pc = "starting",
                                                 !.profileName = profileName])

\* while (!done) { res = await poll ... }
PollAgain ==
    /\ lp.pc = "polling"
    /\ Finished(1)
    /\ pollForLogin(1, lp.profileName, DeviceCode, "s1")
    /\ lp' = FlowAfter(lgCall'[1], [lp EXCEPT !.polls = @ + 1])

CallerStart ==
    /\ \E profileName \in ProfileNames : BeginFlow(profileName)
    /\ UNCHANGED <<rl, notLoop>>

CallerPoll ==
    /\ lp.polls < MaxPolls
    /\ PollAgain
    /\ UNCHANGED <<rl, notLoop>>

\* the provider answers the request of the flow's call, with one of the
\* given responses
RegisterSettles(responses) ==
    /\ ~Resting
    /\ lgCall[1].pc = "awaitRegister"
    /\ \E response \in responses : RegisterSettled(1, response)
    /\ lp' = FlowAfter(lgCall'[1], lp)

DeviceAuthSettles(responses) ==
    /\ ~Resting
    /\ lgCall[1].pc = "awaitDeviceAuth"
    /\ \E response \in responses : DeviceAuthSettled(1, response)
    /\ lp' = FlowAfter(lgCall'[1], lp)

TokenSettles(responses) ==
    /\ ~Resting
    /\ lgCall[1].pc = "awaitToken"
    /\ \E response \in responses : TokenSettled(1, response)
    /\ lp' = FlowAfter(lgCall'[1], lp)

FlowRegisterResponse ==
    /\ RegisterSettles(RegisterResponses)
    /\ UNCHANGED <<rl, notLoop>>

FlowDeviceAuthResponse ==
    /\ DeviceAuthSettles(DeviceAuthResponses)
    /\ UNCHANGED <<rl, notLoop>>

FlowTokenResponse ==
    /\ TokenSettles(TokenResponses)
    /\ UNCHANGED <<rl, notLoop>>

\* a second passes while the flow runs
FlowSecondPasses ==
    /\ now + SecondMs <= MaxSeconds * SecondMs
    /\ now' = now + SecondMs
    /\ UNCHANGED <<store, getId, getPrior, getTime, getResult, evicted>>
    /\ UNCHANGED <<lgVars, lp, rl, notLoop>>

FlowInit ==
    /\ lp = NoFlow
    /\ rl = [client \in Clients |-> 0]

\* the flow made by direct calls
NextPollLoop ==
    \/ CallerStart
    \/ CallerPoll
    \/ FlowRegisterResponse
    \/ FlowDeviceAuthResponse
    \/ FlowTokenResponse
    \/ FlowSecondPasses

LimitedAfterMax(client) == rl[client] > RateMax

\* the limiter rejects a request once max requests of the client were
\* counted in the window
Limited(client) == rl[client] >= RateMax

\* every request to a limited route is counted under its client
Counted(client) == [rl EXCEPT ![client] = @ + 1]

\* res.status(429).json({ error: "Too many requests, please try again later" }):
\* fetchJson throws, the catch block ends the flow
Rejected(flow) ==
    /\ lp' = [flow EXCEPT !.pc = "failed", !.answer = "tooMany"]
    /\ UNCHANGED <<lgVars, ssVars>>

\* POST /api/sso/login/start of the browser
StartRequest ==
    /\ Resting
    /\ Finished(1)
    /\ rl[Browser] < RateMax + MaxRejected
    /\ rl' = Counted(Browser)
    /\ \E profileName \in {"dev", "ghost"} :
           IF Limited(Browser)
           THEN Rejected([NoFlow EXCEPT !.profileName = profileName])
           ELSE BeginFlow(profileName)
    /\ UNCHANGED notLoop

\* POST /api/sso/login/poll of the browser's poll loop
PollRequest ==
    /\ lp.pc = "polling"
    /\ Finished(1)
    /\ lp.polls < RateMax
    /\ rl[Browser] < RateMax + MaxRejected
    /\ rl' = Counted(Browser)
    /\ IF Limited(Browser)
       THEN Rejected(lp)
       ELSE PollAgain
    /\ UNCHANGED notLoop

\* a start request of another client, without profileName: counted under that
\* client, then answered 400 by the handler
OtherClientRequest ==
    /\ \E client \in Clients \ {Browser} :
           /\ rl[client] <= RateMax
           /\ rl' = Counted(client)
    /\ UNCHANGED <<lgVars, ssVars, lp, notLoop>>

\* windowMs have passed: the counts start again (followed between flows)
WindowEnds ==
    /\ Resting
    /\ \E client \in Clients : rl[client] > 0
    /\ rl' = [client \in Clients |-> 0]
    /\ UNCHANGED <<lgVars, ssVars, lp, notLoop>>

\* the provider's answers followed for the flow through the endpoints: the
\* requests succeed or raise; the token request is also answered "pending"
EndpointRegisterResponse ==
    /\ RegisterSettles({[kind |-> "ok", clientId |-> "c1", clientSecret |-> "secret"],
                        [kind |-> "raise", error |-> [name |-> "InternalServerException"]]})
    /\ UNCHANGED <<rl, notLoop>>

EndpointDeviceAuthResponse ==
    /\ DeviceAuthSettles({r \in DeviceAuthResponses :
                             r.kind = "raise" \/ (HasText(r, "deviceCode") /\ HasNumber(r, "interval"))})
    /\ UNCHANGED <<rl, notLoop>>

EndpointTokenResponse ==
    /\ TokenSettles({[kind |-> "ok", accessToken |-> "t1", expiresIn |-> 1],
                     [kind |-> "raise", error |-> [name |-> "AuthorizationPendingException"]],
                     [kind |-> "raise", error |-> [name |-> "AccessDeniedException"]]})
    /\ UNCHANGED <<rl, notLoop>>

\* the flow made through the rate-limited endpoints
NextLoginEndpoints ==
    \/ StartRequest
    \/ PollRequest
    \/ EndpointRegisterResponse
    \/ EndpointDeviceAuthResponse
    \/ EndpointTokenResponse
    \/ OtherClientRequest
    \/ WindowEnds

\* the requests followed while sessions come and go: one complete request
\* per route and session id, the preview for two messages, the redrive of
\* one message with deleteAfterSend
CallInputs(route) ==
    CASE route = "queues" -> PassingInputs
      [] route = "preview" -> {r @@ [maxMessages |-> 2] : r \in PassingInputs}
      [] OTHER -> {r @@ [targetUrl |-> TargetUrl, messages |-> CallMessages,
                         deleteAfterSend |-> TRUE] : r \in PassingInputs}

CallRequest ==
    /\ \E route \in Routes : \E request \in CallInputs(route) : Handle(route, request)
    /\ UNCHANGED regVars
    /\ UNCHANGED notRequests

\* while the operation is running, time passes,
ExpiryDuringCall ==
    /\ OperationRunning
    /\ Tick

\* another request reads the session of the call, which evicts it when expired,
EvictionDuringCall ==
    /\ OperationRunning
    /\ getSsoSession(cr.sessionId)
    /\ UNCHANGED notStore

\* or a login stores another session under the session id of the call
LoginDuringCall ==
    /\ OperationRunning
    /\ \E session \in ConnectedSessions : setSsoSession(cr.sessionId, session)
    /\ UNCHANGED notStore

NextCalls ==
    \/ CallRequest
    \/ RoleCredentialsResponse
    \/ ListResponse
    \/ ReceiveResponse
    \/ SendResponse
    \/ DeleteResponse
    \/ ExpiryDuringCall
    \/ EvictionDuringCall
    \/ LoginDuringCall

RequestsInit == rq = NoRequestYet

(***************************************************************************)
(* Specifications                                                          *)
(***************************************************************************)
Init == RedriveInit /\ FetchInit /\ StoreInit /\ LoginInit /\ RegistryInit
        /\ DiscoveryInit /\ CredentialsInit /\ FilterInit /\ RequestsInit
        /\ FlowInit

\* the initial states of the filter's specification: every input
InitFilter ==
    /\ RedriveInit /\ FetchInit /\ StoreInit /\ LoginInit /\ RegistryInit
    /\ DiscoveryInit /\ CredentialsInit /\ FilterInputs /\ RequestsInit
    /\ FlowInit

\* the initial states of the endpoints' specification: both sessions have
\* connected and discovered the environment EnvOne, which allows the region
\* eu-west-1 only; the session of s2 has expired since and was evicted
InitRequests ==
    /\ RedriveInit /\ FetchInit /\ LoginInit /\ DiscoveryInit /\ CredentialsInit
    /\ FilterInit /\ RequestsInit /\ FlowInit
    /\ \E session \in ConnectedSessions :
           store = [sessionId \in SessionIds |->
                       IF sessionId = "s1" THEN session ELSE None]
    /\ now = 0
    /\ getId = NoSessionId /\ getPrior = None /\ getTime = 0 /\ getResult = None
    /\ evicted = {"s2"}
    /\ dynamicEnvs = [sessionId \in SessionIds |-> <<EnvOne>>]
    /\ lastRegistered = [sessionId \in SessionIds |-> <<EnvOne>>]
    /\ geEnvId = <<>> /\ geSessionId = NoSessionId /\ geEnvs = <<>> /\ geResult = None

SpecRedrive == Init /\ [][NextRedrive]_vars
SpecFetch == Init /\ [][NextFetch]_vars
\* every receive request gets a response
SpecFetchFair == SpecFetch /\ WF_vars(ReceiveResponse)
SpecStore == Init /\ [][NextStore]_vars
SpecLogin == Init /\ [][NextLogin]_vars
SpecSession == Init /\ [][NextSession]_vars
SpecRegistry == Init /\ [][NextRegistry]_vars
SpecDiscovery == Init /\ [][NextDiscovery]_vars
SpecCredentials == Init /\ [][NextCredentials]_vars
SpecFilter == InitFilter /\ [][NextFilter]_vars
SpecRequests == InitRequests /\ [][NextRequests]_vars
SpecPollLoop == Init /\ [][NextPollLoop]_vars
SpecCalls == InitRequests /\ [][NextCalls]_vars
SpecLoginEndpoints == Init /\ [][NextLoginEndpoints]_vars

Next == NextRedrive \/ NextFetch \/ NextStore \/ NextLogin \/ NextSession
            \/ NextRegistry \/ NextDiscovery \/ NextCredentials \/ NextFilter \/ NextRequests
            \/ NextPollLoop \/ NextCalls \/ NextLoginEndpoints
Spec == Init /\ [][Next]_vars

(***************************************************************************)
(* Properties of redriveMessages                                           *)
(***************************************************************************)
SetOf(seq) == {seq[k] : k \in 1..Len(seq)}

SendIndexes == {j \in 1..Len(rdRequests) : rdRequests[j].kind = "send"}
DeleteIndexes == {j \in 1..Len(rdRequests) : rdRequests[j].kind = "delete"}
Answered(j) == j <= Len(rdResponses)

\* the receipt handle of the input message with the given body (bodies are
\* distinct per message)
HandleOfBody(body) == (CHOOSE m \in SetOf(rdMessages) : m.body = body).receiptHandle

\* the receipt handles of the messages of send request j whose entry id the
\* response does not list as failed, in request order
SentOkHandles(j) ==
    LET failedIds == SetOf(rdResponses[j].failed)
        ok == SelectSeq(rdRequests[j].Entries, LAMBDA e : e.Id \notin failedIds)
    IN  [k \in 1..Len(ok) |-> HandleOfBody(ok[k].MessageBody)]

DeleteHandles(j) ==
    [k \in 1..Len(rdRequests[j].Entries) |-> rdRequests[j].Entries[k].ReceiptHandle]

\* C1: every delete request goes to the source queue, directly follows the
\* answered send request of its batch to the target queue, and carries exactly
\* the receipt handles of that batch's messages whose entry id the send
\* response did not list as failed.
C1_DeleteExactlySuccessfullySent ==
    \A j \in DeleteIndexes :
        /\ j > 1
        /\ rdRequests[j].QueueUrl = DlqUrl
        /\ rdRequests[j - 1].kind = "send"
        /\ rdRequests[j - 1].QueueUrl = TargetUrl
        /\ ~rdResponses[j - 1].raised
        /\ DeleteHandles(j) = SentOkHandles(j - 1)

\* a call that returned after the delete of a second batch in which some but
\* not all messages were sent
C1_Witness ==
    /\ rdPc = "returned"
    /\ \E j \in DeleteIndexes :
        /\ j >= 3
        /\ Len(rdRequests[j].Entries) < Len(rdRequests[j - 1].Entries)

\* C2: the returned summary has sent + sendFailed = number of input messages.
C2_SentPlusSendFailedIsInputLength ==
    rdPc = "returned" =>
        /\ rdResult # None
        /\ rdResult.sent + rdResult.sendFailed = Len(rdMessages)

\* a returned call of two batches where one send response listed an id that is
\* no entry of its request and one listed an id twice
C2_Witness ==
    /\ rdPc = "returned"
    /\ Len(rdMessages) > BatchLimit
    /\ \E j \in SendIndexes :
        \E id \in SetOf(rdResponses[j].failed) :
            \A k \in 1..Len(rdRequests[j].Entries) : rdRequests[j].Entries[k].Id # id
    /\ \E j \in SendIndexes :
        Len(rdResponses[j].failed) > Cardinality(SetOf(rdResponses[j].failed))

\* C3: the returned summary has deleted + deleteFailed <= sent, and without
\* deleteAfterSend no delete request was issued and deleted is 0.
C3_DeleteCountsBoundedBySent ==
    rdPc = "returned" =>
        /\ rdResult.deleted + rdResult.deleteFailed <= rdResult.sent
        /\ ~deleteAfterSend => (rdResult.deleted = 0 /\ DeleteIndexes = {})

\* a returned call without deleteAfterSend in which messages were sent
C3_Witness ==
    /\ rdPc = "returned"
    /\ ~deleteAfterSend
    /\ rdResult.sent > 0
    /\ rdResult.sendFailed > 0

\* number of entries of send requests that carry the body of input message p
SendCount(p) ==
    Cardinality({<<j, k>> \in SendIndexes \X (1..BatchLimit) :
        /\ k <= Len(rdRequests[j].Entries)
        /\ rdRequests[j].Entries[k].MessageBody = rdMessages[p].body})

\* number of entries of delete requests that carry the handle of input message p
DeleteCount(p) ==
    Cardinality({<<j, k>> \in DeleteIndexes \X (1..BatchLimit) :
        /\ k <= Len(rdRequests[j].Entries)
        /\ rdRequests[j].Entries[k].ReceiptHandle = rdMessages[p].receiptHandle})

\* input message p was in a send request whose response did not list its entry
SentOk(p) ==
    \E j \in SendIndexes :
        /\ Answered(j)
        /\ rdMessages[p].receiptHandle \in SetOf(SentOkHandles(j))

\* C4: no input message is ever in two send requests, and when the call
\* returns every input message was in exactly one send request and every
\* successfully sent one in exactly one delete request (if deleteAfterSend),
\* whatever failures were reported for other messages.
C4_EveryMessageSentOnce ==
    /\ \A p \in 1..Len(rdMessages) : SendCount(p) <= 1
    /\ rdPc = "returned" =>
        \A p \in 1..Len(rdMessages) :
            /\ SendCount(p) = 1
            /\ DeleteCount(p) = IF deleteAfterSend /\ SentOk(p) THEN 1 ELSE 0

\* a returned call with deleteAfterSend whose first send response listed a
\* failed entry and whose second batch was sent and deleted
C4_Witness ==
    /\ rdPc = "returned"
    /\ deleteAfterSend
    /\ Len(rdResponses) >= 4
    /\ Len(rdResponses[1].failed) > 0
    /\ rdResult.sendFailed > 0
    /\ \E j \in DeleteIndexes : j >= 3

\* C5: once every request of a call has been answered without raising, the
\* call has returned the summary of its counters; it has not raised.
C5_FailureListsNeverRaise ==
    ( /\ rdPc # "idle"
      /\ Len(rdResponses) = Len(rdRequests)
      /\ \A j \in 1..Len(rdResponses) : ~rdResponses[j].raised )
    => /\ rdPc = "returned"
       /\ rdResult = [sent |-> sent, sendFailed |-> sendFailed,
                      deleted |-> deleted, deleteFailed |-> deleteFailed]

\* a returned call whose send and delete responses both listed failed entries
C5_Witness ==
    /\ rdPc = "returned"
    /\ rdResult.sendFailed > 0
    /\ rdResult.deleteFailed > 0
    /\ \A j \in 1..Len(rdResponses) : ~rdResponses[j].raised

(***************************************************************************)
(* Properties of receiveDeduplicated                                       *)
(***************************************************************************)
\* options.maxMessages brought into [1, 5000]
EffectiveMax ==
    IF fOptions.maxMessages < 1 THEN 1
    ELSE IF fOptions.maxMessages > 5000 THEN 5000
    ELSE fOptions.maxMessages

CeilDiv(a, b) == (a + b - 1) \div b

\* C6: the result never holds two entries with the same message id.
C6_NoDuplicateIds ==
    \A a, b \in 1..Len(fMessages) :
        a # b => fMessages[a].MessageId # fMessages[b].MessageId

\* a returned fetch of several messages whose last batch delivered one message
\* twice
C6_Witness ==
    /\ fPc = "returned"
    /\ Len(fMessages) >= 2
    /\ Len(fBatch) = 2
    /\ fBatch[1].MessageId = fBatch[2].MessageId

\* C7: the result never has more entries than maxMessages clamped to [1, 5000].
C7_AtMostClampedMax ==
    fPc # "idle" => Len(fMessages) <= EffectiveMax

\* a fetch that returned with the result filled up to maxMessages, over more
\* than one batch
C7_Witness ==
    /\ fPc = "returned"
    /\ fOptions.maxMessages = MaxRequested
    /\ Len(fMessages) = MaxRequested
    /\ fReceives >= 2

\* the batch of the response handled by this step holds no message id that the
\* result did not hold already
NoUnseenId ==
    \A k \in 1..Len(fBatch') :
        \E a \in 1..Len(fMessages) : fMessages[a].MessageId = fBatch'[k].MessageId

\* C8: the step that handles a receive response ends the fetch, issuing no
\* further receive, iff the batch is empty or holds no unseen id or the result
\* has reached the clamped maxMessages; otherwise it issues exactly one more
\* receive.  When the first two receives deliver the same single message, the
\* fetch returns a result of length 1.
C8_StopConditions ==
    [][ fPc = "awaitReceive" =>
          /\ IF Len(fBatch') = 0 \/ NoUnseenId \/ Len(fMessages') >= EffectiveMax
             THEN fPc' = "returned" /\ fReceives' = fReceives
             ELSE fPc' = "awaitReceive" /\ fReceives' = fReceives + 1
          /\ ( /\ fReceives = 2
               /\ Len(fBatch) = 1
               /\ Len(fBatch') = 1
               /\ fBatch'[1].MessageId = fBatch[1].MessageId )
             => (fPc' = "returned" /\ Len(fMessages') = 1) ]_vars

\* a fetch with maxMessages 3 that returned one message after its second
\* receive redelivered the single message of the first
C8_Witness ==
    /\ fPc = "returned"
    /\ fOptions.maxMessages = 3
    /\ fReceives = 2
    /\ Len(fBatch) = 1
    /\ fBatch[1].ReceiptHandle = "again"
    /\ Len(fMessages) = 1
    /\ fMessages[1].MessageId = fBatch[1].MessageId

\* C9 as stated: a fetch makes at most ceil(clamp(maxMessages) / 10) + 1
\* receive requests.
C9_AsStated ==
    fPc = "returned" => fReceives <= CeilDiv(EffectiveMax, 10) + 1

\* C9 amended: a fetch makes at most clamp(maxMessages) receive requests.
C9_AtMostClampedMaxReceives ==
    fPc # "idle" => fReceives <= EffectiveMax

\* a fetch with maxMessages 3 that returned after three receives of one unseen
\* message each
C9_Witness ==
    /\ fPc = "returned"
    /\ fOptions.maxMessages = 3
    /\ fReceives = 3
    /\ Len(fMessages) = 3

(***************************************************************************)
(* Properties of the session store                                         *)
(***************************************************************************)
\* C10: getSsoSession returns the stored session iff one is stored under the
\* id and its expiresAt is unset or strictly later than the time of the call,
\* and absent otherwise; a returned session is never expired.
C10_GetReturnsUnexpiredOnly ==
    getId # NoSessionId =>
        /\ getResult =
               IF /\ getPrior # None
                  /\ (getPrior.expiresAt = Unset \/ getPrior.expiresAt > getTime)
               THEN getPrior ELSE None
        /\ getResult # None =>
               (getResult.expiresAt = Unset \/ getResult.expiresAt > getTime)

\* a getSsoSession call made exactly at the expiresAt of the stored session
C10_Witness ==
    /\ getId # NoSessionId
    /\ getPrior # None
    /\ getPrior.expiresAt = getTime
    /\ getResult = None

\* C11: a session id whose expired entry a getSsoSession removed has no entry
\* until the next setSsoSession on it, and a getSsoSession on it returns
\* absent, also when the clock has been set back before the expiry.
C11_EvictedStaysAbsent ==
    /\ \A sessionId \in evicted : store[sessionId] = None
    /\ getId \in evicted => getResult = None

\* a second getSsoSession on an evicted id, made at a time before the expiry
\* of the removed session
C11_Witness ==
    /\ getId \in evicted
    /\ getPrior = None
    /\ getResult = None
    /\ getTime = 0
    /\ now = 0

(***************************************************************************)
(* Properties of pollForLogin                                              *)
(***************************************************************************)
\* the step in which the token request of a call settles
TokenStep(call) == lgCall[call].pc = "awaitToken" /\ lgCall'[call].pc # "awaitToken"

\* the provider's "authorization pending" error, in either of its two forms
PendingAnswer(response) ==
    /\ response.kind = "raise"
    /\ \/ response.error.name = "AuthorizationPendingException"
       \/ /\ "error" \in DOMAIN response.error
          /\ response.error.error = "authorization_pending"

\* a token response carrying an access token and a lifetime
CompleteToken(response) ==
    /\ response.kind = "ok"
    /\ "accessToken" \in DOMAIN response /\ response.accessToken # ""
    /\ "expiresIn" \in DOMAIN response /\ response.expiresIn # 0

ProfileNamed(name) == CHOOSE p \in AllProfiles : p.name = name

\* C12: a poll whose token request is answered with "authorization pending"
\* returns exactly {success: false, pending: true} and leaves the session
\* store as it was.
C12_PendingWritesNothing ==
    [][\A call \in Calls :
          (TokenStep(call) /\ PendingAnswer(lgCall'[call].response))
              => /\ lgCall'[call].pc = "returned"
                 /\ lgCall'[call].value = [success |-> FALSE, pending |-> TRUE]
                 /\ store' = store]_vars

\* a poll answered with the error-field form of "pending" while a session is
\* stored under its session id
C12_Witness ==
    \E call \in Calls :
        /\ lgCall[call].pc = "returned"
        /\ lgCall[call].kind = "poll"
        /\ lgCall[call].response.kind = "raise"
        /\ lgCall[call].response.error.name = "Error"
        /\ lgCall[call].value = [success |-> FALSE, pending |-> TRUE]
        /\ store["s1"] # None

\* C13: a poll that receives a complete token stores, under its session id,
\* the session made of the profile's sso-session name and region, the token
\* and expiresAt = now + expiresIn seconds, replacing what was there, and
\* returns {success: true}; a getSsoSession that finds a stored session before
\* its expiresAt returns it.
C13_CompleteTokenStoresSession ==
    [][/\ \A call \in Calls :
             (TokenStep(call) /\ CompleteToken(lgCall'[call].response))
                 => /\ store'[lgCall[call].sessionId] =
                          [ssoSession |-> ProfileNamed(lgCall[call].profileName).ssoSession,
                           ssoRegion |-> ProfileNamed(lgCall[call].profileName).ssoRegion,
                           accessToken |-> lgCall'[call].response.accessToken,
                           expiresAt |-> now + lgCall'[call].response.expiresIn * SecondMs]
                    /\ lgCall'[call].pc = "returned"
                    /\ lgCall'[call].value = [success |-> TRUE]
       /\ (getPrior' # None /\ getTime' < getPrior'.expiresAt)
              => getResult' = getPrior']_vars

\* one second after the start, a getSsoSession returns the session that the
\* last poll stored with the token "t2" and one more second to live
C13_Witness ==
    /\ lgCall[1].pc = "returned"
    /\ lgCall[1].value = [success |-> TRUE]
    /\ lgCall[1].response.accessToken = "t2"
    /\ getId = "s1"
    /\ getTime = SecondMs
    /\ getResult # None
    /\ getResult = store["s1"]
    /\ getResult.accessToken = "t2"
    /\ getResult.ssoSession = "sso-b"
    /\ getResult.expiresAt = 2 * SecondMs

\* C14 as stated: every change of the session store is made by a poll that
\* received a complete token.
C14_AsStated ==
    [][store' # store
          => \E call \in Calls :
                TokenStep(call) /\ CompleteToken(lgCall'[call].response)]_vars

\* C14: the session store gains or replaces an entry only through a poll
\* that received a complete token, and loses an entry only through a
\* getSsoSession that found it expired; a poll that raises (unknown profile,
\* non-pending provider error handed on unchanged, incomplete token response
\* raised as a failure) leaves the session store unchanged.
C14_OnlyCompleteTokenWrites ==
    [][/\ \A sessionId \in SessionIds :
             (store'[sessionId] # store[sessionId] /\ store'[sessionId] # None)
                 => \E call \in Calls :
                       /\ TokenStep(call)
                       /\ CompleteToken(lgCall'[call].response)
                       /\ lgCall[call].sessionId = sessionId
       /\ \A sessionId \in SessionIds :
             (store'[sessionId] # store[sessionId] /\ store'[sessionId] = None)
                 => /\ getId' = sessionId
                    /\ getPrior' = store[sessionId]
                    /\ store[sessionId].expiresAt <= now
       /\ \A call \in Calls :
             /\ (lgCall'[call] # lgCall[call] /\ lgCall'[call].pc = "raised")
                    => store' = store
             /\ (TokenStep(call) /\ lgCall'[call].response.kind = "raise"
                                 /\ ~PendingAnswer(lgCall'[call].response))
                    => /\ lgCall'[call].pc = "raised"
                       /\ lgCall'[call].error = lgCall'[call].response.error
             /\ (TokenStep(call) /\ lgCall'[call].response.kind = "ok"
                                 /\ ~CompleteToken(lgCall'[call].response))
                    => /\ lgCall'[call].pc = "raised"
                       /\ lgCall'[call].error.name = "Error"
                       /\ lgCall'[call].error.message =
                              "Failed to obtain SSO access token"]_vars

\* a poll raised on a token response without lifetime while a session is
\* stored under its session id
C14_Witness ==
    /\ lgCall[1].pc = "raised"
    /\ lgCall[1].response # None
    /\ lgCall[1].response.kind = "ok"
    /\ "expiresIn" \notin DOMAIN lgCall[1].response
    /\ store["s1"] # None

(***************************************************************************)
(* Properties of the environment registry                                  *)
(***************************************************************************)
\* C17: getEnvironment(envId, sessionId) returns a descriptor only when the
\* list last registered under that session id holds one with that id, and
\* then returns the first such descriptor of that list, whatever is
\* registered under other session ids; otherwise it raises "Unknown
\* environment id" and returns nothing.
C17_EnvironmentOfOwnSession ==
    geResult # None =>
        LET holds == {k \in 1..Len(geEnvs) : geEnvs[k].id = geEnvId}
        IN  IF holds = {}
            THEN /\ geResult.kind = "raised"
                 /\ geResult.error.message = "Unknown environment id: "
                 /\ geResult.error.subject = geEnvId
            ELSE /\ geResult.kind = "returned"
                 /\ geResult.value = geEnvs[CHOOSE k \in holds : \A j \in holds : k <= j]

\* the id registered under both session ids with different descriptors is
\* asked for "s1", and an id registered only under "s2" raised for "s1"
C17_Witness ==
    /\ geSessionId = "s1"
    /\ lastRegistered["s1"] = <<EnvOne>>
    /\ lastRegistered["s2"] = <<EnvOneElsewhere, EnvTwo>> \/ lastRegistered["s2"] = <<EnvOneElsewhere>>
    /\ geEnvs = <<EnvOne>>
    /\ geEnvId = EnvOne.id
    /\ geResult.kind = "returned"
    /\ geResult.value = EnvOne

(***************************************************************************)
(* Properties of environment discovery                                     *)
(***************************************************************************)
PageItems(page) == IF "list" \in DOMAIN page THEN page.list ELSE <<>>

\* the items of all pages, in page order
RECURSIVE AllItems(_)
AllItems(pages) ==
    IF pages = <<>> THEN <<>> ELSE PageItems(Head(pages)) \o AllItems(Tail(pages))

HasId(account) == "accountId" \in DOMAIN account /\ account.accountId # <<>>
HasName(role) == "roleName" \in DOMAIN role /\ role.roleName # <<>>

\* the descriptor of an account with id and a role with name
ExpectedEnv(account, role, region) ==
    LET shown == IF "accountName" \in DOMAIN account /\ account.accountName # <<>>
                 THEN account.accountName ELSE account.accountId
    IN  [id |-> account.accountId \o <<"-">> \o role.roleName,
         label |-> shown \o <<" ", "(">> \o role.roleName \o <<")">>,
         regions |-> <<region>>,
         ssoAccountId |-> account.accountId,
         ssoRoleName |-> role.roleName]

\* accounts outer, roles inner, both in the provider's order
RECURSIVE ExpectedEnvs(_, _)
ExpectedEnvs(accountList, region) ==
    IF accountList = <<>> THEN <<>>
    ELSE LET account == Head(accountList)
             named == SelectSeq(AllItems(account.rolePages), HasName)
             own == IF HasId(account)
                    THEN [k \in 1..Len(named) |-> ExpectedEnv(account, named[k], region)]
                    ELSE <<>>
         IN  own \o ExpectedEnvs(Tail(accountList), region)

\* one role request per role page of every account with an id
RECURSIVE ExpectedRoleRequests(_)
ExpectedRoleRequests(accountList) ==
    IF accountList = <<>> THEN <<>>
    ELSE LET account == Head(accountList)
             own == IF HasId(account)
                    THEN [k \in 1..Len(account.rolePages) |-> account.accountId]
                    ELSE <<>>
         IN  own \o ExpectedRoleRequests(Tail(accountList))

RoleRequestIds(requests) ==
    LET asked == SelectSeq(requests, LAMBDA r : r.kind = "roles")
    IN  [k \in 1..Len(asked) |-> asked[k].accountId]

\* C18: a discovery that returns yields exactly one descriptor per account
\* with id and role with name, accounts outer and roles inner in the
\* provider's page order, with id accountId-roleName, label
\* "accountName-or-accountId (roleName)" and the session's SSO region as the
\* only region; role listings are requested for the accounts with id only.
C18_OneDescriptorPerAccountRole ==
    (ds.pc = "done" /\ ds.response.status = 200) =>
        /\ ds.response.body =
               ExpectedEnvs(AllItems(ds.directory), ds.session.ssoRegion)
        /\ RoleRequestIds(ds.requests) = ExpectedRoleRequests(AllItems(ds.directory))

\* two account pages, an account without id, an account without name, two
\* role pages, roles without name: three descriptors
C18_Witness ==
    /\ ds.pc = "done"
    /\ ds.response.status = 200
    /\ Len(ds.directory) = 2
    /\ Len(ds.response.body) = 3
    /\ ds.response.body[3].label = <<"2", " ", "(", "A", ")">>
    /\ ds.response.body[2].id = <<"1", "-", "B">>
    /\ ds.response.body[1].regions = <<"us-east-1">>
    /\ Len(ds.requests) = 5

\* a request to the endpoint is taken up
EndpointStep ==
    /\ ds.pc \in {"idle", "done"}
    /\ <<ds, getId, getPrior, getTime, getResult>>' # <<ds, getId, getPrior, getTime, getResult>>

NoActiveSession(sessionId) ==
    store[sessionId] = None \/ store[sessionId].expiresAt <= now

\* C19: when a page request raises, the endpoint answers 500 without
\* descriptors and the registry is unchanged; a request for a session id
\* without active session is answered 401 "No active SSO session", makes no
\* provider request and registers nothing.
C19_DiscoveryAllOrNothing ==
    [][/\ (ds.pc \in {"awaitAccounts", "awaitRoles"} /\ ds' # ds
               /\ ds'.settled.kind = "raise")
          => /\ ds'.pc = "done"
             /\ ds'.response.status = 500
             /\ ds'.response.error = ds'.settled.error.message
             /\ ds'.response.body = <<>>
             /\ dynamicEnvs' = dynamicEnvs
       /\ \A sessionId \in SessionIds :
             (EndpointStep /\ ds'.sessionId = sessionId /\ NoActiveSession(sessionId))
                 => /\ ds'.pc = "done"
                    /\ ds'.response.status = 401
                    /\ ds'.response.error = "No active SSO session. Please connect first."
                    /\ ds'.requests = <<>>
                    /\ dynamicEnvs' = dynamicEnvs]_vars

\* the second role listing raised after descriptors of the first account had
\* been gathered, with an earlier registration of the session id in place
C19_Witness ==
    /\ ds.pc = "done"
    /\ ds.response.status = 500
    /\ ds.environments # <<>>
    /\ ds.sessionId \in DOMAIN dynamicEnvs
    /\ dynamicEnvs[ds.sessionId] # ds.environments

(***************************************************************************)
(* Properties of credential resolution                                     *)
(***************************************************************************)
\* an operation is called and reaches its first suspension or raises
CallStep ==
    /\ cr.pc \in {"idle", "raised", "returned"}
    /\ cr'.pc \in {"raised", "awaitRoleCreds"}
    /\ cr' # cr

\* the credential exchange of the operation settles
ExchangeStep == cr.pc = "awaitRoleCreds" /\ cr'.pc # "awaitRoleCreds"

\* credentials with an access key and a secret
CompleteCredentials(response) ==
    /\ response.kind = "ok"
    /\ "roleCredentials" \in DOMAIN response
    /\ "accessKeyId" \in DOMAIN response.roleCredentials
    /\ response.roleCredentials.accessKeyId # ""
    /\ "secretAccessKey" \in DOMAIN response.roleCredentials
    /\ response.roleCredentials.secretAccessKey # ""

RaisedWith(message) == cr'.pc = "raised" /\ cr'.error.message = message

\* C15: credential resolution fails with the first failing check, in the
\* order: environment unknown for the session id, no stored unexpired
\* session, descriptor without account id or role name, the credential
\* exchange raising, the credentials lacking access key or secret.
C15_FirstFailingCheck ==
    [][/\ CallStep =>
             LET held == ConditionsAtCall(cr'.envId, cr'.sessionId)
             IN  IF ~held.registered
                 THEN /\ RaisedWith("Unknown environment id: ")
                      /\ cr'.error.subject = cr'.envId
                 ELSE IF ~held.session
                 THEN RaisedWith("No active SSO session for this client")
                 ELSE IF ~held.accountInfo
                 THEN RaisedWith("Environment is missing SSO account info")
                 ELSE cr'.pc = "awaitRoleCreds"
       /\ ExchangeStep =>
             IF cr'.settled.kind = "raise"
             THEN cr'.pc = "raised" /\ cr'.error = cr'.settled.error
             ELSE IF ~CompleteCredentials(cr'.settled)
             THEN RaisedWith("Failed to get role credentials from SSO for environment")
             ELSE cr'.pc \in {"awaitList", "client"}]_vars

\* an operation called for a registered descriptor without account id, at
\* a time when the stored session had expired: the no-session error
C15_Witness ==
    /\ cr.pc = "raised"
    /\ cr.error.message = "No active SSO session for this client"
    /\ cr.envId = EnvNoAccount.id
    /\ lastRegistered[cr.sessionId] = <<EnvNoAccount, EnvNoRole>>
    /\ getId = cr.sessionId
    /\ getPrior # None
    /\ getResult = None
    /\ getTime = now

\* a list, receive or send request of an operation has been issued
QueueRequested == cr.pc = "awaitList" \/ rdRequests # <<>> \/ fReceives > 0

\* C16: no queue request is issued unless, when the operation was called,
\* the environment id was registered for the session id with account id and
\* role name and an unexpired session was stored under the session id, and
\* the credential exchange returned an access key and a secret.
C16_NoQueueRequestWithoutCredentials ==
    QueueRequested =>
        /\ cr.pc \in {"awaitList", "client"}
        /\ cr.atCall = [registered |-> TRUE, accountInfo |-> TRUE, session |-> TRUE]
        /\ CompleteCredentials(cr.settled)

\* the send request of a redrive is out, and the session it was called with
\* has expired since
C16_Witness ==
    /\ cr.op = "redriveMessages"
    /\ rdPc = "awaitSend"
    /\ Len(rdRequests) = 1
    /\ store[cr.sessionId] # None
    /\ store[cr.sessionId].expiresAt <= now


(***************************************************************************)
(* Attribute filter: the two results of one input                          *)
(***************************************************************************)
\* how many entries of result carry msg
Occurrences(result, msg) ==
    Cardinality({j \in 1..Len(result) : result[j].raw = msg})

\* the message has a body (the code's test: Body present and not empty)
HasBody(msg) == "Body" \in DOMAIN msg /\ msg.Body # ""

BodyParses(msg) == JSONparse(msg.Body).kind = "ok"

PathResolves(msg, attributePath) ==
    getByPath(JSONparse(msg.Body).value, attributePath).t # "undefined"

ValueMatches(msg, attributePath, expectedValue) ==
    StringOf(getByPath(JSONparse(msg.Body).value, attributePath)) = expectedValue

\* C20: once filterByAttributePath has run on the same messages, path and
\* expected value with exclude = false and with exclude = true, every message
\* of the list is placed as follows: without body, in neither result; with a
\* body that fails to parse, once in both; with a parsed body whose path does
\* not resolve (the empty path never resolves), once in the exclude = true
\* result only; with a parsed body whose path resolves, once in exactly one
\* result: the exclude = false result if String(value) equals the expected
\* value, the exclude = true result otherwise.
C20_FilterSplitsMessages ==
    fl.ran = {"matching", "excluding"} =>
        \A k \in 1..Len(fl.messages) :
            LET msg == fl.messages[k]
                inMatching == Occurrences(fl.matching, msg)
                inExcluding == Occurrences(fl.excluding, msg)
            IN  IF ~HasBody(msg) THEN inMatching = 0 /\ inExcluding = 0
                ELSE IF ~BodyParses(msg) THEN inMatching = 1 /\ inExcluding = 1
                ELSE IF fl.attributePath = <<>> \/ ~PathResolves(msg, fl.attributePath)
                THEN inMatching = 0 /\ inExcluding = 1
                ELSE IF ValueMatches(msg, fl.attributePath, fl.expectedValue)
                THEN inMatching = 1 /\ inExcluding = 0
                ELSE inMatching = 0 /\ inExcluding = 1

\* both calls have run on a list of a message whose path resolves to a
\* matching value (the array ["a","b"] against "a,b") and a message whose
\* body fails to parse
C20_Witness ==
    /\ fl.ran = {"matching", "excluding"}
    /\ Len(fl.messages) = 2
    /\ fl.messages[1] = RawMessage(1, OrderText)
    /\ fl.messages[2] = RawMessage(2, BrokenText)
    /\ fl.attributePath = KeyUser \o Dot \o KeyTags
    /\ fl.expectedValue = <<"a", ",", "b">>
    /\ Len(fl.matching) = 2
    /\ Len(fl.excluding) = 1

(***************************************************************************)
(* Properties of redriveMessages: batches, requests and entry ids          *)
(***************************************************************************)
\* the send request at position j of the request log is the call's SendRank(j)-th
SendRank(j) == Cardinality({k \in SendIndexes : k <= j})

\* the bodies of the entries of request j, in order
SendBodies(j) ==
    [k \in 1..Len(rdRequests[j].Entries) |-> rdRequests[j].Entries[k].MessageBody]

\* the bodies of the input messages from position first to position last
InputBodies(first, last) == [k \in 1..(last - first + 1) |-> rdMessages[first + k - 1].body]

\* C26: the b-th send request of a call carries the input messages
\* 10(b-1)+1 .. min(10b, n) in input order (so between 1 and 10 of them), a
\* returned call has issued ceil(n/10) send requests (none for an empty
\* input), and at every moment at most one request of the call is unanswered:
\* a request is only issued once every earlier one has been answered.
C26_BatchesInOrderOneAtATime ==
    /\ \A j \in SendIndexes :
           LET first == (SendRank(j) - 1) * BatchLimit + 1
               last == Min(SendRank(j) * BatchLimit, Len(rdMessages))
           IN  /\ first <= last
               /\ SendBodies(j) = InputBodies(first, last)
    /\ rdPc = "returned" =>
           Cardinality(SendIndexes) = CeilDiv(Len(rdMessages), BatchLimit)
    /\ Len(rdRequests) - Len(rdResponses) \in {0, 1}
    /\ Len(rdRequests) - Len(rdResponses) = 1 <=> rdPc \in {"awaitSend", "awaitDelete"}

\* a returned call on more than ten messages that sent and deleted the first
\* batch before it sent the second
C26_Witness ==
    /\ rdPc = "returned"
    /\ Len(rdMessages) > BatchLimit
    /\ Len(rdRequests) = 4
    /\ rdRequests[2].kind = "delete"
    /\ rdRequests[3].kind = "send"
    /\ Len(rdRequests[3].Entries) = Len(rdMessages) - BatchLimit

\* some entry of send request j is not listed as failed by its response
SomeSent(j) ==
    \E k \in 1..Len(rdRequests[j].Entries) :
        rdRequests[j].Entries[k].Id \notin SetOf(rdResponses[j].failed)

\* C27: every delete request directly follows a send request and is followed,
\* if at all, by a send request (one send and at most one delete per batch);
\* an answered send request is directly followed by a delete request iff
\* deleteAfterSend is set and some entry of the request is not listed as
\* failed by the response; otherwise it is followed by the next batch's send
\* request, or by the return of the call.
C27_DeleteIffFlagAndSomeSent ==
    /\ \A j \in DeleteIndexes :
           /\ j > 1
           /\ rdRequests[j - 1].kind = "send"
           /\ j < Len(rdRequests) => rdRequests[j + 1].kind = "send"
    /\ \A j \in SendIndexes :
           (Answered(j) /\ ~rdResponses[j].raised) =>
               IF deleteAfterSend /\ SomeSent(j)
               THEN j < Len(rdRequests) /\ rdRequests[j + 1].kind = "delete"
               ELSE \/ j = Len(rdRequests) /\ rdPc = "returned"
                    \/ j < Len(rdRequests) /\ rdRequests[j + 1].kind = "send"

\* with deleteAfterSend, every send of the first batch failed and the second
\* batch's send followed directly; the second batch was deleted
C27_Witness ==
    /\ rdPc = "returned"
    /\ deleteAfterSend
    /\ Len(rdRequests) = 3
    /\ ~SomeSent(1)
    /\ rdRequests[2].kind = "send"
    /\ rdRequests[3].kind = "delete"

\* the entries of all send requests: <<request, position>>
SendEntryRefs ==
    {ref \in SendIndexes \X (1..BatchLimit) : ref[2] <= Len(rdRequests[ref[1]].Entries)}

\* the entry that carries input message p (bodies are distinct per message)
EntryRefOf(p) ==
    CHOOSE ref \in SendEntryRefs :
        rdRequests[ref[1]].Entries[ref[2]].MessageBody = rdMessages[p].body

\* the id of p's own entry is listed as failed by the response to its request
OwnEntryFailed(p) ==
    LET ref == EntryRefOf(p)
    IN  rdRequests[ref[1]].Entries[ref[2]].Id \in SetOf(rdResponses[ref[1]].failed)

\* C28: no two entries of the send requests of one call carry the same id,
\* and the sendFailed of a returned call is the number of input messages
\* whose own entry id is listed as failed by the response to its request.
C28_SendIdsDistinct ==
    /\ \A r1, r2 \in SendEntryRefs :
           r1 # r2 =>
               rdRequests[r1[1]].Entries[r1[2]].Id # rdRequests[r2[1]].Entries[r2[2]].Id
    /\ rdPc = "returned" =>
           rdResult.sendFailed =
               Cardinality({p \in 1..Len(rdMessages) : OwnEntryFailed(p)})

\* a returned call on messages that all carry the same messageId, in which
\* the entry of exactly one of several copies was listed as failed
C28_Witness ==
    /\ rdPc = "returned"
    /\ Len(rdMessages) > BatchLimit
    /\ \A p \in 1..Len(rdMessages) : rdMessages[p].messageId = rdMessages[1].messageId
    /\ rdResult.sendFailed = 1
    /\ rdResult.sent = Len(rdMessages) - 1

\* the entries of all delete requests: <<request, position>>
DeleteEntryRefs ==
    {ref \in DeleteIndexes \X (1..BatchLimit) : ref[2] <= Len(rdRequests[ref[1]].Entries)}

\* the position in the input list of the message with the given receipt
\* handle (handles are distinct per message)
PositionOfHandle(handle) ==
    CHOOSE p \in 1..Len(rdMessages) : rdMessages[p].receiptHandle = handle

\* the position in the input list of the message with the given body
PositionOfBody(body) ==
    CHOOSE p \in 1..Len(rdMessages) : rdMessages[p].body = body

\* '{globalIndex}-{messageId}' of the input message at position p
CompositeId(p) == EntryId(p - 1, rdMessages[p].messageId)

\* C29: every entry of a send request and every entry of a delete request
\* carries the composite id of its message, globalIndex being the message's
\* position in the whole input list (counted from 0).
C29_AsStated ==
    /\ \A ref \in SendEntryRefs :
           LET entry == rdRequests[ref[1]].Entries[ref[2]]
           IN  entry.Id = CompositeId(PositionOfBody(entry.MessageBody))
    /\ \A ref \in DeleteEntryRefs :
           LET entry == rdRequests[ref[1]].Entries[ref[2]]
           IN  entry.Id = CompositeId(PositionOfHandle(entry.ReceiptHandle))

\* C30: in every step of a call each of the four counters stays non-negative
\* and does not decrease.
C30_AsStated ==
    [][ /\ sent' >= sent /\ sent' >= 0
        /\ sendFailed' >= sendFailed /\ sendFailed' >= 0
        /\ deleted' >= deleted /\ deleted' >= 0
        /\ deleteFailed' >= deleteFailed /\ deleteFailed' >= 0 ]_vars

(***************************************************************************)
(* Properties of the registered client and of the profile lookup          *)
(***************************************************************************)
\* the call holds the registered client and has issued, or has had answered,
\* its device-authorization or token request
AtRequest(c) == c.pc \in {"awaitDeviceAuth", "awaitToken"}

\* this step a RegisterClient request of some call settles with a complete
\* answer: a registration completes successfully
RegistrationCompletes ==
    \E call \in Calls :
        /\ lgCall[call].pc = "awaitRegister"
        /\ AtRequest(lgCall'[call])

\* C23: a client registration completes successfully only while no client is
\* registered (so at most one ever does), and every call that sends a
\* device-authorization or token request sends the one registered client.
C23_AsStated ==
    [][ /\ RegistrationCompletes => registeredClient = None
        /\ \A call \in Calls :
               AtRequest(lgCall'[call]) => lgCall'[call].client = registeredClient' ]_vars

\* C24: the client sent in a device-authorization or token request to the
\* identity provider of a profile's region was registered in that region.
C24_AsStated ==
    \A call \in Calls :
        AtRequest(lgCall[call]) =>
            lgCall[call].client.registeredIn = lgCall[call].profile.ssoRegion

\* this step the call in the slot begins (startLogin or pollForLogin is called)
Begins(call) == Finished(call) /\ lgCall'[call] # lgCall[call]

\* C25: a call that begins with a profile name no profile of the present
\* profile set carries raises "Unknown SSO profile: <name>" at once: it
\* issues no request, and leaves the registered client and the session store
\* as they are; a call that begins with a name of the present set goes on
\* with that profile to its first request.  The set is read at every call.
C25_UnknownProfileFailsFirst ==
    [][ \A call \in Calls :
           Begins(call) =>
               LET c == lgCall'[call]
               IN  IF c.pc = "raised"
                   THEN /\ c.response = None
                        /\ c.error.message = "Unknown SSO profile: "
                        /\ \A p \in profiles : p.name # c.error.subject
                        /\ registeredClient' = registeredClient
                        /\ store' = store
                   ELSE /\ c.pc \in {"awaitRegister", "awaitDeviceAuth", "awaitToken"}
                        /\ c.profile \in profiles
                        /\ c.profile.name = c.profileName ]_vars

\* a startLogin returned with the client registered in the region of profile
\* "dev"; the profile then left the set and a poll for it raised
C25_Witness ==
    /\ lgCall[1].pc = "returned"
    /\ lgCall[1].kind = "start"
    /\ registeredClient # None
    /\ registeredClient.registeredIn = "eu-west-1"
    /\ \A p \in profiles : p.name # "dev"
    /\ lgCall[2].pc = "raised"
    /\ lgCall[2].kind = "poll"
    /\ lgCall[2].response = None
    /\ lgCall[2].error.subject = "dev"

(***************************************************************************)
(* Properties of the endpoints                                             *)
(***************************************************************************)
\* C21: a step in which a request is answered with status 400 changes
\* nothing but the record of that request: no device-flow, credential-exchange
\* or queue request is made, and the session store and the environment
\* registry stay as they are; the answer names missing inputs or a region
\* that the environment does not allow.
C21_RefusedRequestsTouchNothing ==
    [][ (rq' # rq /\ Response'.status = 400) =>
            /\ cr' = cr
            /\ rdVars' = rdVars
            /\ fVars' = fVars
            /\ lgVars' = lgVars
            /\ ds' = ds
            /\ store' = store
            /\ dynamicEnvs' = dynamicEnvs
            /\ Response'.error \in {RequiredMessage(route) : route \in Routes}
                                       \cup {"Region not allowed for this environment"} ]_vars

\* after a queue listing was answered, a request is refused because of its region
C21_Witness ==
    /\ rq.pc = "refused"
    /\ Response.status = 400
    /\ Response.error = "Region not allowed for this environment"
    /\ cr.pc = "returned"
    /\ cr.op = "listQueues"

\* sub is a subsequence of full
RECURSIVE IsSubsequence(_, _)
IsSubsequence(sub, full) ==
    IF sub = <<>> THEN TRUE
    ELSE IF full = <<>> THEN FALSE
    ELSE IF Head(sub) = Head(full) THEN IsSubsequence(Tail(sub), Tail(full))
    ELSE IsSubsequence(sub, Tail(full))

\* a fetched message as the response shows it when nothing is added to it
Untouched(msg) ==
    IF "Body" \in DOMAIN msg
    THEN [messageId |-> msg.MessageId, receiptHandle |-> msg.ReceiptHandle,
          body |-> msg.Body]
    ELSE [messageId |-> msg.MessageId, receiptHandle |-> msg.ReceiptHandle]

\* what a response message shows of the fetched message it stands for
Shown(m) ==
    IF "body" \in DOMAIN m
    THEN [messageId |-> m.messageId, receiptHandle |-> m.receiptHandle, body |-> m.body]
    ELSE [messageId |-> m.messageId, receiptHandle |-> m.receiptHandle]

\* the request carries an attributePath that is not empty, and an expectedValue
BothPresent(body) ==
    /\ "attributePath" \in DOMAIN body /\ body.attributePath # <<>>
    /\ "expectedValue" \in DOMAIN body

PreviewAnswered == rq.pc = "called" /\ rq.route = "preview" /\ Response.status = 200

\* C22: a preview answered with 200 reports totalFetched = number of fetched
\* messages and totalMatched = number of returned messages <= totalFetched,
\* and the returned messages are, in order, a subsequence of the fetched
\* ones.  Unless the request carries both attributePath and expectedValue,
\* every fetched message is returned as fetched, those without body too; if
\* it carries both, the returned messages are the filter's result.
C22_FilterOnlyWhenBothPresent ==
    PreviewAnswered =>
        LET answer == Response.body
            shown == [k \in 1..Len(answer.messages) |-> Shown(answer.messages[k])]
            fetched == [k \in 1..Len(fMessages) |-> Untouched(fMessages[k])]
        IN  /\ answer.totalFetched = Len(fMessages)
            /\ answer.totalMatched = Len(answer.messages)
            /\ answer.totalMatched <= answer.totalFetched
            /\ IsSubsequence(shown, fetched)
            /\ IF BothPresent(rq.body)
               THEN answer.totalMatched =
                        Len(filterByAttributePath(fMessages, rq.body.attributePath,
                                                  StringOf(rq.body.expectedValue),
                                                  ExcludeMatching(rq.body)))
               ELSE answer.messages = fetched

\* a preview with attributePath but without expectedValue fetched two
\* messages, one without body, and returned both
C22_Witness ==
    /\ PreviewAnswered
    /\ "attributePath" \in DOMAIN rq.body
    /\ rq.body.attributePath # <<>>
    /\ "expectedValue" \notin DOMAIN rq.body
    /\ Len(fMessages) = 2
    /\ \E k \in 1..2 : "Body" \notin DOMAIN fMessages[k]
    /\ Response.body.totalMatched = 2

(***************************************************************************)
(* Order of the result of receiveDeduplicated                              *)
(***************************************************************************)
\* the positions of the batch handled by this step that deliver an id for the
\* first time: the id is not in the result so far and not earlier in the batch
FirstDeliveries ==
    {k \in 1..Len(fBatch') :
        /\ \A a \in 1..Len(fMessages) : fMessages[a].MessageId # fBatch'[k].MessageId
        /\ \A j \in 1..(k - 1) : fBatch'[j].MessageId # fBatch'[k].MessageId}

\* the a-th smallest member of a set of positions
NthOf(positions, a) ==
    CHOOSE k \in positions : Cardinality({j \in positions : j <= k}) = a

\* C31: the result is the sequence of first deliveries in delivery order: the
\* step that handles a receive response keeps the result so far as it is and
\* appends, in batch order, exactly the entries of the batch that deliver an
\* id for the first time, unchanged (body, receipt handle); the other entries
\* of the batch are discarded.
C31_FirstSeenOrder ==
    [][ fPc = "awaitReceive" =>
          /\ Len(fMessages') = Len(fMessages) + Cardinality(FirstDeliveries)
          /\ \A a \in 1..Len(fMessages) : fMessages'[a] = fMessages[a]
          /\ \A a \in 1..Cardinality(FirstDeliveries) :
                 fMessages'[Len(fMessages) + a] = fBatch'[NthOf(FirstDeliveries, a)]
      ]_vars

\* a returned fetch of three receives whose result holds several messages in
\* queue order, each as first delivered, and whose last batch redelivered the
\* first message of the result
C31_Witness ==
    /\ fPc = "returned"
    /\ fReceives = 3
    /\ Len(fMessages) >= 3
    /\ \A a \in 1..Len(fMessages) : fMessages[a].ReceiptHandle = "first"
    /\ Len(fBatch) >= 1
    /\ fBatch[1].MessageId = fMessages[1].MessageId
    /\ fBatch[1].ReceiptHandle = "again"

(***************************************************************************)
(* Frame of the session store operations                                   *)
(***************************************************************************)
\* the entry of the id is stored and its expiresAt has passed
PastExpiry(sessionId) ==
    /\ store[sessionId] # None
    /\ store[sessionId].expiresAt # Unset
    /\ store[sessionId].expiresAt <= now

\* C32: setSsoSession(k, s) replaces the entry of k by s whatever it was and
\* changes no other entry; getSsoSession(k) changes nothing, except that it
\* removes the entry of k when that entry is expired; an entry changes only
\* in a setSsoSession or getSsoSession on its own key, so an expired entry
\* stays in the store until a getSsoSession on its key.
C32_OperationsTouchOwnKeyOnly ==
    [][ /\ \A k \in SessionIds, s \in Sessions :
               setSsoSession(k, s) => store' = [store EXCEPT ![k] = s]
        /\ \A k \in SessionIds :
               getSsoSession(k) =>
                   store' = IF PastExpiry(k) THEN [store EXCEPT ![k] = None] ELSE store
        /\ \A k \in SessionIds :
               store'[k] # store[k] =>
                   \/ \E s \in Sessions : setSsoSession(k, s)
                   \/ getSsoSession(k) /\ PastExpiry(k) /\ store'[k] = None
      ]_vars

\* a getSsoSession on s2 has just removed the expired entry of s2, and the
\* entry of s1, expired as well, is still in the store
C32_Witness ==
    /\ getId = "s2"
    /\ getTime = now
    /\ getPrior # None
    /\ "s2" \in evicted
    /\ store["s2"] = None
    /\ store["s1"] # None
    /\ store["s1"].expiresAt # Unset
    /\ store["s1"].expiresAt < now

RequestRaises ==
    /\ rdPc \in {"awaitSend", "awaitDelete"}
    /\ Len(rdResponses') = Len(rdResponses) + 1
    /\ rdResponses'[Len(rdResponses')].raised

\* C34: when a send or delete request raises, the call raises the error of
\* that request as it is, returns no summary and issues no further request;
\* the requests made before stay as they were made and answered (nothing is
\* sent or deleted to undo them).  A call that has raised stays so.
C34_RaisedRequestEndsCall ==
    [][ /\ RequestRaises =>
              /\ rdPc' = "raised"
              /\ rdError' = rdResponses'[Len(rdResponses')].error
              /\ rdResult' = None
              /\ rdRequests' = rdRequests
              /\ \A j \in 1..Len(rdResponses) : rdResponses'[j] = rdResponses[j]
        /\ rdPc = "raised" =>
              /\ UNCHANGED rdVars
              /\ rdResult = None
              /\ Len(rdRequests) = Len(rdResponses)
        /\ rdPc' = "raised" <=> (rdPc = "raised" \/ RequestRaises)
      ]_vars

\* a call that raised on the delete request of its second batch, after the
\* first batch was sent and deleted and the second batch was sent
C34_Witness ==
    /\ rdPc = "raised"
    /\ rdError = [name |-> "TimeoutError", message |-> "socket hang up"]
    /\ Len(rdRequests) = 4
    /\ rdRequests[2].kind = "delete"
    /\ rdRequests[4].kind = "delete"
    /\ ~rdResponses[3].raised
    /\ Len(rdResponses[3].failed) = 0
    /\ rdResponses[4].raised
    /\ sent > BatchLimit
    /\ deleted > 0

(***************************************************************************)
(* The registry and the session store under one session id                 *)
(***************************************************************************)
\* the descriptors registered under the session id of the last discovery
\* request are the ones that request found, with the session ds.session
RegisteredByLastRequest ==
    /\ ds.pc = "done"
    /\ ds.response.status = 200
    /\ ds.sessionId \in DOMAIN dynamicEnvs
    /\ dynamicEnvs[ds.sessionId] = ds.response.body

\* C35 as stated: whenever descriptors are registered under a session id and a
\* session is stored under the same id, the descriptors were discovered with
\* the access token of that stored session.
C35_AsStated ==
    (RegisteredByLastRequest /\ store[ds.sessionId] # None)
        => store[ds.sessionId].accessToken = ds.session.accessToken

(***************************************************************************)
(* The session check of an operation                                       *)
(***************************************************************************)
\* a session that has not expired is stored under the id
SessionValid(sessionId) ==
    /\ store[sessionId] # None
    /\ (store[sessionId].expiresAt = Unset \/ store[sessionId].expiresAt > now)

\* a step of the operation that is running
CallProgresses ==
    /\ OperationRunning
    /\ <<cr, fVars, rdVars>>' # <<cr, fVars, rdVars>>

NoSessionMessage == "No active SSO session for this client"

\* C36: the session is checked when the operation is called, before the
\* credential exchange: the call requests role credentials iff a session that
\* has not expired is stored then, and raises "No active SSO session"
\* otherwise.  No later step of the operation reads or changes the session
\* store or raises that error; the fetch ends only for its own reasons (empty
\* batch, no unseen id, result full), the redrive raises only when a request
\* raises and deletes what it sent, whatever has become of the session.
C36_SessionCheckedOnceAtCall ==
    [][ /\ CallStep =>
              /\ cr'.pc = "awaitRoleCreds" <=> SessionValid(cr'.sessionId)
              /\ ~SessionValid(cr'.sessionId) =>
                     cr'.error.message = NoSessionMessage
        /\ CallProgresses =>
              /\ UNCHANGED <<store, getId, getPrior, getTime, getResult, evicted>>
              /\ cr'.pc = "raised" => cr'.error.message # NoSessionMessage
              /\ (fPc = "awaitReceive" /\ fPc' = "returned") =>
                     \/ Len(fBatch') = 0
                     \/ NoUnseenId
                     \/ Len(fMessages') >= EffectiveMax
              /\ (rdPc \in {"awaitSend", "awaitDelete"} /\ rdPc' = "raised") =>
                     RequestRaises
              /\ (rdPc = "awaitSend" /\ ~RequestRaises /\ deleteAfterSend
                      /\ Len(successfulBatch') > 0) => rdPc' = "awaitDelete"
      ]_vars

\* a preview that returned two messages from two receives although the
\* session of its call expired and was evicted while it was running
C36_Witness ==
    /\ rq.pc = "called"
    /\ rq.route = "preview"
    /\ cr.pc = "client"
    /\ fPc = "returned"
    /\ fReceives = 2
    /\ Len(fMessages) = 2
    /\ cr.sessionId \in evicted
    /\ store[cr.sessionId] = None

(***************************************************************************)
(* The budget of the login endpoints                                       *)
(***************************************************************************)
\* the browser sends a start or poll request in this step
BrowserRequest == rl'[Browser] = rl[Browser] + 1

\* C37: start and poll requests of a client draw on one budget of 20 per
\* window: a request made after 20 were counted in the window is rejected
\* without calling startLogin or pollForLogin and ends the flow in an error;
\* an earlier one reaches its call, whatever other clients have sent.  A poll
\* loop ended this way stores no session: the store stays as it is while the
\* flow is not started again.
C37_SharedLoginBudget ==
    [][ /\ BrowserRequest =>
              IF rl[Browser] >= 20
              THEN /\ lgCall' = lgCall
                   /\ registeredClient' = registeredClient
                   /\ store' = store
                   /\ lp'.pc = "failed"
                   /\ lp'.answer = "tooMany"
              ELSE /\ lp'.answer # "tooMany"
                   /\ lgCall'[1].pc \in {"awaitRegister", "awaitDeviceAuth",
                                         "awaitToken", "raised"}
                   /\ lgCall'[1].kind = IF lp.pc = "polling" THEN "poll" ELSE "start"
        /\ (lp.pc = "failed" /\ lp'.pc = "failed") => store' = store
        /\ lp.answer = "tooMany" => Finished(1)
      ]_vars

\* the browser's flow used the budget up with its start request and 19 polls
\* that all returned pending; its 20th poll was rejected and the flow ended
\* without a session, while another client had used up its own budget
C37_Witness ==
    /\ lp.pc = "failed"
    /\ lp.answer = "tooMany"
    /\ lp.polls = 19
    /\ rl[Browser] = 21
    /\ rl["other"] > 20
    /\ lgCall[1].pc = "returned"
    /\ lgCall[1].value = [success |-> FALSE, pending |-> TRUE]
    /\ store["s1"] = None

(***************************************************************************)
(* Messages without message id in receiveDeduplicated                      *)
(***************************************************************************)
\* the positions of a list that hold a message delivered without MessageId
WithoutId(list) == {k \in 1..Len(list) : list[k].MessageId = Undefined}

\* C38: the result never holds more than one message without id; when it
\* holds one, a batch made of id-less messages only adds nothing and ends the
\* fetch like a batch of duplicates.
C38_IdlessMessagesAreOneId ==
    [][ /\ Cardinality(WithoutId(fMessages')) <= 1
        /\ ( /\ fPc = "awaitReceive"
             /\ WithoutId(fMessages) # {}
             /\ Len(fBatch') > 0
             /\ WithoutId(fBatch') = 1..Len(fBatch') )
           => /\ fPc' = "returned"
              /\ fMessages' = fMessages
              /\ newInBatch' = 0
      ]_vars

\* a fetch that took one id-less message and another message, and returned
\* when a later batch brought two id-less messages only
C38_Witness ==
    /\ fPc = "returned"
    /\ fReceives >= 2
    /\ Len(fMessages) >= 2
    /\ Cardinality(WithoutId(fMessages)) = 1
    /\ Len(fMessages) < maxMessages
    /\ Len(fBatch) = 2
    /\ WithoutId(fBatch) = {1, 2}
    /\ fBatch[1].ReceiptHandle # fBatch[2].ReceiptHandle
    /\ newInBatch = 0

(***************************************************************************)
(* Termination of receiveDeduplicated                                      *)
(***************************************************************************)
\* C39: when every receive request gets a response, a fetch returns; a
\* receive after which the fetch goes on has added at least one message to
\* the result, and a returned fetch has made at least one and at most
\* clamp(maxMessages, 1, 5000) receive requests.
C39_FetchTerminates ==
    /\ (fPc = "awaitReceive") ~> (fPc = "returned")
    /\ [][ (fPc = "awaitReceive" /\ fPc' = "awaitReceive") =>
               /\ fReceives' = fReceives + 1
               /\ Len(fMessages') > Len(fMessages) ]_vars
    /\ [](fPc = "returned" => (fReceives >= 1 /\ fReceives <= EffectiveMax))

\* a fetch asked for no message at all that made one receive and returned the
\* one message it delivered
C39_Witness ==
    /\ fPc = "returned"
    /\ fOptions.maxMessages < 1
    /\ fReceives = 1
    /\ Len(fMessages) = 1
    /\ batchSize = 1

====
